---- MODULE Spec2Model ----
(***************************************************************************)
(* The local secret vault of the nosis desktop application.                *)
(*                                                                         *)
(* Two variants of the vault live in the repository:                       *)
(*   - apps/desktop/src-tauri/src/secrets.rs: SecretStore, a Stronghold    *)
(*     client store guarded by an operations lock (Mutex<()>), used from   *)
(*     command handlers through tokio's blocking pool;                     *)
(*   - src/src-tauri/src/{lib,commands,vault}.rs: ApiKeyVault, the older   *)
(*     vault behind a Mutex<ApiKeyVault>.                                  *)
(* Both are modelled over the same state: the snapshot file, the client    *)
(* store in memory, the lock, and the position of every worker inside its  *)
(* command.  Spec is the SecretStore, LegacySpec the ApiKeyVault.          *)
(*                                                                         *)
(* iota_stronghold is a dependency of the program.  Its calls are modelled *)
(* at their call sites by what the library does: create_client registers a *)
(* new, empty client in the Stronghold's client table; load_client builds  *)
(* the client from the state the loaded snapshot holds for it and fails    *)
(* when the snapshot holds none; get_client returns a handle that shares   *)
(* the registered client's store; commit_with_keyprovider writes the state *)
(* of every registered client into the snapshot and replaces the file.     *)
(***************************************************************************)
EXTENDS Naturals, FiniteSets, Sequences, TLC

\* Bounds of the model.
MaxOps == 3          \* commands issued over a behaviour
MaxRestarts == 1     \* times the process is stopped and started again

\* Store keys the commands use (commands.rs: "fal_api_key", "arcade_api_key").
Keys == {"fal_api_key", "arcade_api_key"}
\* Secret values: opaque byte strings.
Values == {"v1", "v2"}
\* Workers of the blocking pool that run vault operations.
Threads == {"w1", "w2"}

None == "None"           \* Option::None
Unknown == "Unknown"     \* ghost: no acknowledged value is known for a key
Removed == "Removed"     \* ghost: the key's removal was acknowledged
NoHolder == "nobody"     \* the mutex is free

OpKinds == {"insert", "get", "remove"}

VARIABLES
    app,        \* "down" | "running" | "failed": the process and its vault
    disk,       \* the snapshot file: [exists, readable, entries]
    store,      \* the registered client's store: a set of <<key, value>>
    lock,       \* the operations mutex: [holder, poisoned]
    pc,         \* per worker: position inside its command
    op,         \* per worker: the command it runs [kind, key, value]
    buf,        \* per worker: the snapshot image its commit is writing
    result,     \* per worker: what the command returned
    acked,      \* ghost: per key, what the last successful mutation of the key
                \*        acknowledged: a value (insert), Removed (remove), None
                \*        (never written); Unknown while a mutation of the key
                \*        has started and was not acknowledged
    sinceOpen,  \* ghost: per key, whether acked[k] was set in this process run
    nops,       \* commands issued so far
    restarts    \* restarts so far

\* The OAuth callback listener (oauth_callback.rs) and its registry.
VARIABLES
    now,        \* the monotonic clock (Instant::now()), in ticks
    session,    \* per capture session: the listener, its worker and its handle
    registry,   \* OAuthSessions: server id -> the session whose handle it holds
    rows,       \* ids of the rows of table mcp_servers
    starter,    \* the handler running start_oauth_callback_server
    canceller,  \* the handler running shutdown_oauth_session / delete_mcp_server
    arrivals    \* requests the listeners accepted so far

\* The salt file of the older vault (src/src-tauri/src/lib.rs).
VARIABLES
    saltFile,   \* the file: [exists, len, bytes]
    saltCall,   \* per caller of get_or_create_salt: its position and result
    saltCalls   \* calls of get_or_create_salt so far

VARIABLES
    failures,   \* the failed commands so far: the error and what the UI got
    textStore,  \* bytes stored under the keys that are read as text
    textRead,   \* the last read of a text secret: who read, what, the result
    sanitized   \* the call of sanitize_error_body: [called, body, max_len, out]

VARIABLES
    falVault,   \* the entry of "fal_api_key" in the secret store
    falCache,   \* FalKeyCache: the cached Fal key
    falCall,    \* per handler: the Fal key command it runs and its position
    legacyKeys, \* ApiKeyVault store: provider -> the entry of api_key:<provider>
    exaFlag,    \* ExaKeyPresent
    deskKeys,   \* SecretStore: provider -> the entry of api_key:<provider>
    mcp,        \* one MCP server: its row, its registry entry, its secret entries
    mcpCall,    \* the handler running delete_mcp_server, and what it returned
    startCall   \* the last call of start_oauth_callback_server: [state, result]

vaultVars == <<app, disk, store, lock, pc, op, buf, result, acked, sinceOpen, nops, restarts>>
oauthVars == <<now, session, registry, rows, starter, canceller, arrivals>>
saltVars == <<saltFile, saltCall, saltCalls>>
\* What a vault action leaves alone.
textVars == <<failures, textStore, textRead, sanitized>>
cmdVars == <<falVault, falCache, falCall, legacyKeys, exaFlag, deskKeys, mcp, mcpCall>>
otherVars == <<oauthVars, saltVars, textVars, cmdVars, startCall>>

vars == <<app, disk, store, lock, pc, op, buf, result, acked, sinceOpen, nops, restarts,
          now, session, registry, rows, starter, canceller, arrivals,
          saltFile, saltCall, saltCalls,
          failures, textStore, textRead, sanitized,
          falVault, falCache, falCall, legacyKeys, exaFlag, deskKeys, mcp, mcpCall,
          startCall>>

NoOp == [kind |-> "none", key |-> "none", value |-> None]
NoResult == [status |-> "none", value |-> None, seen |-> Unknown, fresh |-> FALSE,
             prev |-> Unknown]
NoDisk == [exists |-> FALSE, readable |-> TRUE, entries |-> {}]

----------------------------------------------------------------------------
\* The Stronghold client store (client.store()): a cache of key/value pairs.

\* store().get(key)
StoreGet(s, k) ==
    IF \E e \in s : e[1] = k THEN (CHOOSE e \in s : e[1] = k)[2] ELSE None

\* A store insert that keeps an existing entry instead of replacing it.
StoreInsertKeepsOld(s, k, v) ==
    IF \E e \in s : e[1] = k THEN s ELSE s \cup {<<k, v>>}

\* A store insert that adds the entry beside the old one.
StoreInsertAppends(s, k, v) == s \cup {<<k, v>>}

\* store().insert(key, value, None): replaces any entry of the key.
StoreInsert(s, k, v) == {e \in s : e[1] # k} \cup {<<k, v>>}

\* A delete that clears the whole store.
StoreDeleteClears(s, k) == {}

\* store().delete(key)
StoreDelete(s, k) == {e \in s : e[1] # k}

----------------------------------------------------------------------------
\* SecretStore::open (apps/desktop)

\* Stronghold::create_client on the fresh Stronghold open() builds: registers a
\* new empty client; the snapshot loaded before is not consulted.
CreateClient(loaded) == [ok |-> TRUE, store |-> {}]

\* Stronghold::load_client: the client as the loaded snapshot holds it.
LoadClient(loaded) ==
    IF loaded.exists THEN [ok |-> TRUE, store |-> loaded.entries]
    ELSE [ok |-> FALSE, store |-> {}]

\* lib.rs:135-141 (src/src-tauri): get_client finds nothing on the fresh
\* Stronghold, so the client is loaded from the snapshot, and created when the
\* snapshot holds none.
LoadOrCreateClient(loaded) ==
    IF LoadClient(loaded).ok THEN LoadClient(loaded) ELSE CreateClient(loaded)

\* secrets.rs:51-55: create the client, and load it if creating fails.
EnsureClient(loaded) ==
    IF ~CreateClient(loaded).ok THEN LoadClient(loaded) ELSE CreateClient(loaded)

\* secrets.rs:42-46: the snapshot, when it exists, must load.
OpenLoads(d) == ~d.exists \/ d.readable

ResetWorkers ==
    /\ pc' = [t \in Threads |-> "idle"]
    /\ op' = [t \in Threads |-> NoOp]
    /\ buf' = [t \in Threads |-> {}]
    /\ result' = [t \in Threads |-> NoResult]
    /\ lock' = [holder |-> NoHolder, poisoned |-> FALSE]

\* open_secret_store at startup: open() and expect().
Open ==
    /\ app = "down"
    /\ IF OpenLoads(disk)
         THEN LET c == EnsureClient(disk)
              IN  IF c.ok
                    THEN app' = "running" /\ store' = c.store
                    ELSE app' = "failed" /\ store' = {}
         ELSE app' = "failed" /\ store' = {}
    /\ ResetWorkers
    /\ UNCHANGED <<disk, acked, sinceOpen, nops, restarts>>
    /\ UNCHANGED otherVars

\* The process ends (quit, crash or kill); everything in memory is gone.
Exit ==
    /\ app \in {"running", "failed"}
    /\ restarts < MaxRestarts
    /\ restarts' = restarts + 1
    /\ app' = "down"
    /\ store' = {}
    /\ ResetWorkers
    /\ sinceOpen' = [k \in Keys |-> FALSE]
    /\ UNCHANGED <<disk, acked, nops>>
    /\ UNCHANGED otherVars

\* The snapshot file is corrupted or tampered with while the process is down.
Tamper ==
    /\ app = "down"
    /\ disk.exists /\ disk.readable
    /\ disk' = [disk EXCEPT !.readable = FALSE]
    /\ UNCHANGED <<app, store, lock, pc, op, buf, result, acked, sinceOpen, nops, restarts>>
    /\ UNCHANGED otherVars

----------------------------------------------------------------------------
\* SecretStore operations, run by blocking(...) on a pool worker.

\* A command handler hands an operation to a worker (commands.rs blocking()).
Call(t) ==
    /\ app = "running"
    /\ pc[t] = "idle"
    /\ nops < MaxOps
    /\ \E kind \in OpKinds, k \in Keys, v \in Values :
          /\ kind # "insert" => v = "v1"
          /\ op' = [op EXCEPT ![t] = [kind |-> kind, key |-> k,
                                      value |-> IF kind = "insert" THEN v ELSE None]]
    /\ pc' = [pc EXCEPT ![t] = "called"]
    /\ nops' = nops + 1
    /\ UNCHANGED <<app, disk, store, lock, buf, result, acked, sinceOpen, restarts>>
    /\ UNCHANGED otherVars

\* `let (_, client) = ...`: the guard is dropped as soon as it is returned.
BindGuardDropped(t) == NoHolder

\* `let (_guard, client) = self.locked_client()?`: the guard lives to the end
\* of the operation.
BindGuard(t) == t

\* self.lock.lock().expect("secret store lock poisoned")
PoisonPanics(l) == l.poisoned

Finish(t, status, value) ==
    /\ pc' = [pc EXCEPT ![t] = "done"]
    /\ result' = [result EXCEPT ![t] = [@ EXCEPT !.status = status, !.value = value]]

Release(t) ==
    lock' = IF lock.holder = t THEN [lock EXCEPT !.holder = NoHolder] ELSE lock

\* SecretStore::locked_client: take the lock, then get the client.
LockedClient(t) ==
    /\ pc[t] = "called"
    /\ lock.holder = NoHolder
    /\ IF PoisonPanics(lock)
         THEN /\ Finish(t, "poisoned", None)
              /\ UNCHANGED lock
         ELSE /\ lock' = [lock EXCEPT !.holder = BindGuard(t)]
              /\ pc' = [pc EXCEPT ![t] = "locked"]
              /\ UNCHANGED result
    /\ UNCHANGED <<app, disk, store, op, buf, acked, sinceOpen, nops, restarts>>
    /\ UNCHANGED otherVars

\* SecretStore::insert, the store insert.
Insert(t) ==
    /\ pc[t] = "locked" /\ op[t].kind = "insert"
    /\ store' = StoreInsert(store, op[t].key, op[t].value)
    /\ pc' = [pc EXCEPT ![t] = "stored"]
    /\ result' = [result EXCEPT ![t].prev = StoreGet(store, op[t].key)]
    /\ acked' = [acked EXCEPT ![op[t].key] = Unknown]
    /\ sinceOpen' = [sinceOpen EXCEPT ![op[t].key] = TRUE]
    /\ UNCHANGED <<app, disk, lock, op, buf, nops, restarts>>
    /\ UNCHANGED otherVars

\* SecretStore::get
Get(t) ==
    /\ pc[t] = "locked" /\ op[t].kind = "get"
    /\ pc' = [pc EXCEPT ![t] = "done"]
    /\ result' = [result EXCEPT ![t] =
                    [status |-> "ok", value |-> StoreGet(store, op[t].key),
                     seen |-> acked[op[t].key], fresh |-> sinceOpen[op[t].key],
                     prev |-> Unknown]]
    /\ Release(t)
    /\ UNCHANGED <<app, disk, store, op, buf, acked, sinceOpen, nops, restarts>>
    /\ UNCHANGED otherVars

\* A remove that deletes and commits whether or not the key is there.
RemoveSkipsNever(s, k) == FALSE

\* secrets.rs:108-110: Ok(None) => return Ok(())
RemoveSkips(s, k) == StoreGet(s, k) = None

\* SecretStore::remove, up to the delete.
Remove(t) ==
    /\ pc[t] = "locked" /\ op[t].kind = "remove"
    /\ IF RemoveSkips(store, op[t].key)
         THEN /\ Finish(t, "ok", None)
              /\ Release(t)
              /\ UNCHANGED <<store, acked, sinceOpen>>
         ELSE /\ store' = StoreDelete(store, op[t].key)
              /\ pc' = [pc EXCEPT ![t] = "stored"]
              /\ result' = [result EXCEPT ![t].prev = StoreGet(store, op[t].key)]
              /\ acked' = [acked EXCEPT ![op[t].key] = Unknown]
              /\ sinceOpen' = [sinceOpen EXCEPT ![op[t].key] = TRUE]
              /\ UNCHANGED lock
    /\ UNCHANGED <<app, disk, op, buf, nops, restarts>>
    /\ UNCHANGED otherVars

\* SecretStore::save, first half: commit_with_keyprovider writes the client's
\* state into the snapshot image that goes to the file.
CommitSerialize(t) ==
    /\ pc[t] = "stored"
    /\ buf' = [buf EXCEPT ![t] = store]
    /\ pc' = [pc EXCEPT ![t] = "serialized"]
    /\ UNCHANGED <<app, disk, store, lock, op, result, acked, sinceOpen, nops, restarts>>
    /\ UNCHANGED otherVars

\* A save that reports success whatever the commit did.
SaveStatusSwallows(committed) == "ok"

\* secrets.rs:124-126: the commit's error is the operation's error.
SaveStatus(committed) == IF committed THEN "ok" ELSE "commit_err"

\* SecretStore::save, second half: the file is replaced by the image
\* (committed), or the write fails and the file stays as it was; the operation
\* returns and its guard is dropped.
CommitWriteWith(t, committed) ==
    /\ pc[t] = "serialized"
    /\ disk' = IF committed
                 THEN [exists |-> TRUE, readable |-> TRUE, entries |-> buf[t]]
                 ELSE disk
    /\ Finish(t, SaveStatus(committed), None)
    /\ acked' = IF SaveStatus(committed) = "ok"
                  THEN [acked EXCEPT ![op[t].key] =
                          IF op[t].kind = "insert" THEN op[t].value ELSE Removed]
                  ELSE acked
    /\ Release(t)
    /\ UNCHANGED <<app, store, op, buf, sinceOpen, nops, restarts>>
    /\ UNCHANGED otherVars

CommitWrite(t) == \E committed \in BOOLEAN : CommitWriteWith(t, committed)

\* A store call (get_client, insert, get, delete) returns an error: the
\* operation maps it to AppError::SecretStore and returns; nothing is changed.
StoreError(t) ==
    /\ pc[t] = "locked"
    /\ Finish(t, "store_err", None)
    /\ Release(t)
    /\ UNCHANGED <<app, disk, store, op, buf, acked, sinceOpen, nops, restarts>>
    /\ UNCHANGED otherVars

\* The operation panics while it holds the guard: the mutex is poisoned, and
\* blocking() turns the JoinError into an error for the caller.
Panic(t) ==
    /\ pc[t] \in {"locked", "stored", "serialized"}
    /\ lock' = IF lock.holder = t
                 THEN [holder |-> NoHolder, poisoned |-> TRUE]
                 ELSE lock
    /\ Finish(t, "panic", None)
    /\ UNCHANGED <<app, disk, store, op, buf, acked, sinceOpen, nops, restarts>>
    /\ UNCHANGED otherVars

\* The command handler takes the result; the worker is free again.
Return(t) ==
    /\ pc[t] = "done"
    /\ pc' = [pc EXCEPT ![t] = "idle"]
    /\ op' = [op EXCEPT ![t] = NoOp]
    /\ buf' = [buf EXCEPT ![t] = {}]
    /\ result' = [result EXCEPT ![t] = NoResult]
    /\ UNCHANGED <<app, disk, store, lock, acked, sinceOpen, nops, restarts>>
    /\ UNCHANGED otherVars

----------------------------------------------------------------------------
\* The OAuth callback listener: apps/desktop/src-tauri/src/oauth_callback.rs,
\* and the commands that start and cancel a capture (commands.rs).
\*
\* tiny_http is a dependency of the program.  Its calls are modelled at their
\* call sites by what the library does: the Server owns the bound socket and
\* an accept thread that parses each request and pushes it on the Server's
\* message queue; recv_timeout pops the front of the queue, and returns
\* Ok(None) when the front is an unblock marker or when the interval passes
\* with the queue empty; unblock pushes an unblock marker on the queue; the
\* socket is closed when the last Arc<Server> is dropped.

\* Bounds of the listener model.
TimeoutTicks == 1    \* clock ticks a capture waits for its callback
MaxRequests == 2     \* requests the listeners accept over a behaviour
MaxShutdownCalls == 2    \* calls of shutdown() a holder makes on one handle

Sessions == {"s1", "s2"}     \* capture sessions a behaviour can start
FirstSession == {"s1"}       \* the one capture of the behaviours with requests
ServerIds == {"srv"}         \* ids of MCP servers (uuids in the program)
NoId == "NoId"               \* server_id: None
NoSession == "NoSession"     \* no entry under the id
NoEq == "NoEq"               \* a query parameter without '='

\* The expected_state the frontend passes (spec.md's "abc123").
ExpectedState == "abc123"

\* A request URL is its path followed by the parts that '?' separates.  The
\* path is a sequence of pieces: "/oauth/callback-evil" is the piece
\* "/oauth/callback" followed by the piece "-evil".
CallbackPath == <<"/oauth/callback">>
Param(k, v) == [key |-> k, value |-> v]
Url(path, parts) == [path |-> path, parts |-> parts]

\* What the Server's queue holds: requests and unblock markers.  intime is
\* a ghost: the request arrived before the session's deadline.
Request(u, intime) == [kind |-> "request", url |-> u, intime |-> intime]
Unblock == [kind |-> "unblock", url |-> Url(<<>>, <<>>), intime |-> FALSE]
NoRequest == [kind |-> "none", url |-> Url(<<>>, <<>>), intime |-> FALSE]

\* urlencoding::decode(value).ok(): percent escapes are replaced by the bytes
\* they name; bytes that are not UTF-8 make the decoding fail.
Decode(v) ==
    CASE v = "abc%31%32%33" -> "abc123"
      [] v = "%58YZ" -> "XYZ"
      [] v = "%FF" -> None
      [] OTHER -> v

\* oauth_callback.rs:158-166: the loop over the query's parameters; a later
\* "code" or "state" replaces an earlier one, also when it does not decode.
RECURSIVE ParseParams(_, _, _)
ParseParams(params, code, state) ==
    IF params = <<>> THEN <<code, state>>
    ELSE LET p == Head(params)
         IN  IF p.value = NoEq THEN ParseParams(Tail(params), code, state)
             ELSE IF p.key = "code"
                    THEN ParseParams(Tail(params), Decode(p.value), state)
             ELSE IF p.key = "state"
                    THEN ParseParams(Tail(params), code, Decode(p.value))
             ELSE ParseParams(Tail(params), code, state)

\* A mutation of extract_callback_params: empty values pass.
extract_callback_paramsKeepsEmpty(url) ==
    IF Len(url.parts) < 1 THEN [some |-> FALSE, code |-> None, state |-> None]
    ELSE LET cs == ParseParams(url.parts[1], None, None)
         IN  IF cs[1] # None /\ cs[2] # None
               THEN [some |-> TRUE, code |-> cs[1], state |-> cs[2]]
               ELSE [some |-> FALSE, code |-> None, state |-> None]

\* oauth_callback.rs:153-172 extract_callback_params: the query is what stands
\* between the first '?' and the next one.
extract_callback_params(url) ==
    IF Len(url.parts) < 1 THEN [some |-> FALSE, code |-> None, state |-> None]
    ELSE LET cs == ParseParams(url.parts[1], None, None)
         IN  IF cs[1] # None /\ cs[2] # None /\ cs[1] # "" /\ cs[2] # ""
               THEN [some |-> TRUE, code |-> cs[1], state |-> cs[2]]
               ELSE [some |-> FALSE, code |-> None, state |-> None]

\* oauth_callback.rs:100 request.url().starts_with("/oauth/callback")
IsCallbackUrl(url) == Len(url.path) >= 1 /\ url.path[1] = CallbackPath[1]

\* The requests a browser, a provider or a local prober sends.
Queries ==
    { <<Param("code", "XYZ"), Param("state", "abc123")>>,
      <<Param("state", "abc%31%32%33"), Param("code", "%58YZ")>>,
      <<Param("code", "XYZ"), Param("state", "wrong")>>,
      <<Param("code", ""), Param("state", "abc123")>>,
      <<Param("code", "XYZ"), Param("state", "abc123"), Param("code", "%FF")>>,
      <<Param("code", NoEq), Param("state", "abc123")>> }

Urls ==
    {Url(CallbackPath, <<q>>) : q \in Queries}
      \cup { Url(<<"/oauth/callback", "-evil">>,
                 << <<Param("code", "XYZ"), Param("state", "abc123")>> >>),
             Url(CallbackPath, <<>>),
             Url(<<"/favicon.ico">>, <<>>) }

----------------------------------------------------------------------------
\* A capture session: the tiny_http Server, the worker thread that runs
\* run_callback_loop, and the OAuthSessionHandle (shutdown flag and Server).

SessionOrder == <<"s1", "s2">>

UnusedSession ==
    [status |-> "Unused", wpc |-> "none", id |-> NoId, expected |-> None,
     deadline |-> 0, shutdown |-> FALSE, queue |-> <<>>, req |-> NoRequest,
     emitted |-> <<>>, responses |-> <<>>, owners |-> {}]

IdleStarter == [pc |-> "idle", s |-> NoSession, id |-> NoId]
IdleCanceller ==
    [pc |-> "idle", kind |-> "none", id |-> NoId, s |-> NoSession, calls |-> 0]

\* The events the worker emits to the frontend.
CodeEvent(code, state) ==
    [event |-> "mcp-oauth-code", code |-> code, state |-> state, message |-> ""]
ErrorEvent(message) ==
    [event |-> "mcp-oauth-error", code |-> "", state |-> "", message |-> message]
TimedOutEvent == ErrorEvent("OAuth callback timed out")
ServerErrorEvent == ErrorEvent("OAuth callback server error")
RejectedEvent == ErrorEvent("OAuth callback rejected: state mismatch")
NoEvent == ErrorEvent("")

\* A mutation of is_expired: the deadline never passes.
is_expiredNever(deadline) == FALSE

\* oauth_callback.rs:149-151 is_expired
is_expired(deadline) == now > deadline

\* The Server's socket is open while an Arc<Server> is left.
PortReleased(s) == session[s].status # "Unused" /\ session[s].owners = {}

\* A mutation of the return: the worker goes round the loop again.
ExitedLoopsOn(ss, status) == [ss EXCEPT !.status = status, !.wpc = "check"]

\* The worker leaves run_callback_loop: the thread ends and drops its
\* Arc<Server>.
Exited(ss, status) ==
    [ss EXCEPT !.status = status, !.wpc = "exited", !.req = NoRequest,
               !.owners = @ \ {"worker"}]

\* oauth_callback.rs:67-74 the thread starts and computes its deadline.
RunCallbackLoop(s) ==
    /\ session[s].wpc = "spawned"
    /\ session' = [session EXCEPT ![s].deadline = now + TimeoutTicks,
                                  ![s].wpc = "check"]
    /\ UNCHANGED <<now, registry, rows, starter, canceller, arrivals>>
    /\ UNCHANGED <<vaultVars, saltVars, textVars, cmdVars, startCall>>

\* oauth_callback.rs:77 shutdown.load(Ordering::Relaxed)
SeesShutdown(ss) == ss.shutdown

\* oauth_callback.rs:76-79 the top of the loop.
CheckShutdown(s) ==
    /\ session[s].wpc = "check"
    /\ session' = [session EXCEPT ![s] =
                     IF SeesShutdown(@) THEN Exited(@, "ShutDown")
                                        ELSE [@ EXCEPT !.wpc = "recv"]]
    /\ UNCHANGED <<now, registry, rows, starter, canceller, arrivals>>
    /\ UNCHANGED <<vaultVars, saltVars, textVars, cmdVars, startCall>>

\* oauth_callback.rs:81,92 recv_timeout returns Ok(Some(req)).
RecvRequest(s) ==
    /\ session[s].wpc = "recv"
    /\ session[s].queue # <<>>
    /\ Head(session[s].queue).kind = "request"
    /\ session' = [session EXCEPT ![s].req = Head(session[s].queue),
                                  ![s].queue = Tail(@),
                                  ![s].wpc = "got"]
    /\ UNCHANGED <<now, registry, rows, starter, canceller, arrivals>>
    /\ UNCHANGED <<vaultVars, saltVars, textVars, cmdVars, startCall>>

\* oauth_callback.rs:87-91 what the loop does with Ok(None).
PollReturnedNone(ss) ==
    IF is_expired(ss.deadline)
      THEN Exited([ss EXCEPT !.emitted = Append(@, TimedOutEvent)], "TimedOut")
      ELSE [ss EXCEPT !.wpc = "check"]

\* recv_timeout returns Ok(None) because the thread was unblocked.
RecvUnblocked(s) ==
    /\ session[s].wpc = "recv"
    /\ session[s].queue # <<>>
    /\ Head(session[s].queue).kind = "unblock"
    /\ session' = [session EXCEPT ![s] =
                     PollReturnedNone([@ EXCEPT !.queue = Tail(@)])]
    /\ UNCHANGED <<now, registry, rows, starter, canceller, arrivals>>
    /\ UNCHANGED <<vaultVars, saltVars, textVars, cmdVars, startCall>>

\* recv_timeout returns Ok(None) because POLL_INTERVAL passed with nothing
\* in the queue.
RecvTimeout(s) ==
    /\ session[s].wpc = "recv"
    /\ session[s].queue = <<>>
    /\ session' = [session EXCEPT ![s] = PollReturnedNone(@)]
    /\ UNCHANGED <<now, registry, rows, starter, canceller, arrivals>>
    /\ UNCHANGED <<vaultVars, saltVars, textVars, cmdVars, startCall>>

\* oauth_callback.rs:82-86 recv_timeout returns Err.
RecvError(s) ==
    /\ session[s].wpc = "recv"
    /\ session' = [session EXCEPT ![s] =
                     Exited([@ EXCEPT !.emitted = Append(@, ServerErrorEvent)],
                            "Failed")]
    /\ UNCHANGED <<now, registry, rows, starter, canceller, arrivals>>
    /\ UNCHANGED <<vaultVars, saltVars, textVars, cmdVars, startCall>>

\* A mutation of the state test: no state passes.
StateMatchesNever(state, expected) == FALSE

\* oauth_callback.rs:129 state != expected_state
StateMatches(state, expected) == state = expected

\* oauth_callback.rs:118-141 handle_oauth_callback: the response, the event
\* and whether the loop is done.
handle_oauth_callback(url, expected) ==
    LET p == extract_callback_params(url)
    IN  IF ~p.some
          THEN [response |-> 400, event |-> NoEvent, status |-> "Listening"]
        ELSE IF ~StateMatches(p.state, expected)
          THEN [response |-> 400, event |-> RejectedEvent, status |-> "Rejected"]
        ELSE [response |-> 200, event |-> CodeEvent(p.code, p.state),
              status |-> "Completed"]

\* A mutation of the late-request test: a request is never late.
LateNever(deadline) == FALSE

\* oauth_callback.rs:94 is_expired(deadline) for a request in hand.
Late(deadline) == is_expired(deadline)

\* oauth_callback.rs:94-109 what the loop does with a request.
Outcome(ss) ==
    IF Late(ss.deadline)
      THEN [response |-> 408, event |-> TimedOutEvent, status |-> "TimedOut"]
    ELSE IF ~IsCallbackUrl(ss.req.url)
      THEN [response |-> 404, event |-> NoEvent, status |-> "Listening"]
    ELSE handle_oauth_callback(ss.req.url, ss.expected)

HandleRequest(s) ==
    /\ session[s].wpc = "got"
    /\ LET o == Outcome(session[s])
           answered == [session[s] EXCEPT !.responses = Append(@, o.response)]
       IN  session' = [session EXCEPT ![s] =
             IF o.status = "Listening"
               THEN [answered EXCEPT !.wpc = "check", !.req = NoRequest]
               ELSE Exited([answered EXCEPT !.emitted = Append(@, o.event)],
                           o.status)]
    /\ UNCHANGED <<now, registry, rows, starter, canceller, arrivals>>
    /\ UNCHANGED <<vaultVars, saltVars, textVars, cmdVars, startCall>>

\* The worker of session s is inside its loop and its deadline is ahead.
Waiting(s) ==
    session[s].wpc \in {"check", "recv", "got"} /\ now <= session[s].deadline

\* Time passes.  The clock is followed while a worker waits for its deadline.
Tick ==
    /\ \E s \in Sessions : Waiting(s)
    /\ now' = now + 1
    /\ UNCHANGED <<session, registry, rows, starter, canceller, arrivals>>
    /\ UNCHANGED <<vaultVars, saltVars, textVars, cmdVars, startCall>>

\* The Server's accept thread takes a request from the socket and queues it.
Arrive(s, u) ==
    /\ session[s].status # "Unused"
    /\ session[s].owners # {}
    /\ arrivals < MaxRequests
    /\ arrivals' = arrivals + 1
    /\ session' = [session EXCEPT ![s].queue = Append(@, Request(u, session[s].wpc = "spawned" \/ now <= session[s].deadline))]
    /\ UNCHANGED <<now, registry, rows, starter, canceller>>
    /\ UNCHANGED <<vaultVars, saltVars, textVars, cmdVars, startCall>>

----------------------------------------------------------------------------
\* The commands that start and cancel a capture, and the OAuthSessions map.

\* The first session of SessionOrder that no capture used yet.
FreshSession(s) ==
    \E i \in 1..Len(SessionOrder) :
        /\ SessionOrder[i] = s
        /\ session[s].status = "Unused"
        /\ \A j \in 1..(i - 1) : session[SessionOrder[j]].status # "Unused"

\* commands.rs:1147-1182 add_mcp_server: a row under a new id (gen_id()).
AddMcpServer(id) ==
    /\ rows[id] = "none"
    /\ rows' = [rows EXCEPT ![id] = "present"]
    /\ UNCHANGED <<now, session, registry, starter, canceller, arrivals>>
    /\ UNCHANGED <<vaultVars, saltVars, textVars, cmdVars, startCall>>

\* commands.rs:1229-1249 start_oauth_callback_server up to the handle, and
\* oauth_callback.rs:38-65 start_callback_server: the Server is bound, the
\* handle and the worker each hold an Arc of it, the thread is spawned.
StartListener(s, id) ==
    /\ starter.pc = "idle"
    /\ FreshSession(s)
    /\ session' = [session EXCEPT ![s] =
                     [UnusedSession EXCEPT !.status = "Listening",
                                           !.wpc = "spawned",
                                           !.id = id,
                                           !.expected = ExpectedState,
                                           !.owners = {"worker", "caller"}]]
    /\ starter' = [pc |-> "started", s |-> s, id |-> id]
    /\ UNCHANGED <<now, registry, rows, canceller, arrivals>>
    /\ UNCHANGED <<vaultVars, saltVars, textVars, cmdVars>>

\* start_callback_server called with the state text ExpectedState, which
\* passes the checks of start_oauth_callback_server.
StartCallbackServer(s, id) == StartListener(s, id) /\ UNCHANGED startCall

\* The map's mutex: shutdown() runs inside the guard's scope.
MapLocked == canceller.pc \in {"holding", "flagged"}

\* A handle is dropped: its Arc<Server> goes.
DropHandle(ss, owner) == [ss EXCEPT !.owners = @ \ {owner}]

\* commands.rs:1252 if let Some(id) = server_id
KeepsHandle(id) == id # NoId

\* commands.rs:1252-1258 the handle goes into the map under server_id, in
\* place of the handle the map held under that id; without an id it is
\* dropped.
RegisterSession ==
    /\ starter.pc = "started"
    /\ ~MapLocked
    /\ LET s == starter.s
           id == starter.id
       IN  IF KeepsHandle(id)
             THEN /\ registry' = [registry EXCEPT ![id] = s]
                  /\ session' = [t \in Sessions |->
                        IF t = s
                          THEN [session[t] EXCEPT
                                  !.owners = (@ \ {"caller"}) \cup {"registry"}]
                        ELSE IF t = registry[id]
                          THEN DropHandle(session[t], "registry")
                        ELSE session[t]]
             ELSE /\ session' = [session EXCEPT ![s] = DropHandle(@, "caller")]
                  /\ UNCHANGED registry
    /\ starter' = IdleStarter
    /\ UNCHANGED <<now, rows, canceller, arrivals>>
    /\ UNCHANGED <<vaultVars, saltVars, textVars, cmdVars, startCall>>

\* map.remove(&id) when the map holds a handle under id: the handler owns it.
TakeHandle(kind, id) ==
    /\ registry[id] # NoSession
    /\ registry' = [registry EXCEPT ![id] = NoSession]
    /\ session' = [session EXCEPT ![registry[id]].owners =
                                     (@ \ {"registry"}) \cup {"canceller"}]
    /\ canceller' = [pc |-> "holding", kind |-> kind, id |-> id, s |-> registry[id],
                     calls |-> 0]

\* commands.rs:1261-1268 shutdown_oauth_session: the lock and map.remove.
\* With no handle under the id the command changes nothing.
ShutdownOauthSession(id) ==
    /\ canceller.pc = "idle"
    /\ IF registry[id] # NoSession
         THEN TakeHandle("shutdown", id)
         ELSE UNCHANGED <<session, registry, canceller>>
    /\ UNCHANGED <<now, rows, starter, arrivals>>
    /\ UNCHANGED <<vaultVars, saltVars, textVars, cmdVars, startCall>>

\* commands.rs:1196-1208 delete_mcp_server: the row is deleted; with no row
\* the command returns NotFound.
DeleteMcpServer(id) ==
    /\ canceller.pc = "idle"
    /\ rows[id] = "present"
    /\ rows' = [rows EXCEPT ![id] = "deleted"]
    /\ canceller' = [pc |-> "deleted", kind |-> "delete", id |-> id, s |-> NoSession,
                     calls |-> 0]
    /\ UNCHANGED <<now, session, registry, starter, arrivals>>
    /\ UNCHANGED <<vaultVars, saltVars, textVars, cmdVars, startCall>>

\* commands.rs:1210-1220 delete_mcp_server: the lock and map.remove.
DeleteRemoveSession ==
    /\ canceller.pc = "deleted"
    /\ IF registry[canceller.id] # NoSession
         THEN TakeHandle("delete", canceller.id)
         ELSE canceller' = IdleCanceller /\ UNCHANGED <<session, registry>>
    /\ UNCHANGED <<now, rows, starter, arrivals>>
    /\ UNCHANGED <<vaultVars, saltVars, textVars, cmdVars, startCall>>

\* A mutation of the store: the flag is flipped.
StoredFlagFlips(old) == ~old

\* oauth_callback.rs:24 the value shutdown.store leaves in the flag.
StoredFlag(old) == TRUE

\* oauth_callback.rs:24 shutdown.store(true, Ordering::Relaxed)
ShutdownStore ==
    /\ canceller.pc = "holding"
    /\ session' = [session EXCEPT ![canceller.s].shutdown = StoredFlag(@)]
    /\ canceller' = [canceller EXCEPT !.pc = "flagged", !.calls = @ + 1]
    /\ UNCHANGED <<now, registry, rows, starter, arrivals>>
    /\ UNCHANGED <<vaultVars, saltVars, textVars, cmdVars, startCall>>

\* A mutation of unblock: nothing is pushed on the queue.
UnblockedQueueSame(q) == q

\* tiny_http Server::unblock
UnblockedQueue(q) == Append(q, Unblock)

\* oauth_callback.rs:25 server.unblock(); the handle taken from the map is
\* then dropped.
ShutdownUnblock ==
    /\ canceller.pc = "flagged"
    /\ session' = [session EXCEPT ![canceller.s] =
                     DropHandle([@ EXCEPT !.queue = UnblockedQueue(@)], "canceller")]
    /\ canceller' = IdleCanceller
    /\ UNCHANGED <<now, registry, rows, starter, arrivals>>
    /\ UNCHANGED <<vaultVars, saltVars, textVars, cmdVars, startCall>>

\* oauth_callback.rs:25 server.unblock() of a caller that keeps its handle
\* (OAuthSessionHandle is Clone, shutdown takes &self) and calls shutdown()
\* on it once more.
ShutdownUnblockKeep ==
    /\ canceller.pc = "flagged"
    /\ canceller.calls < MaxShutdownCalls
    /\ session' = [session EXCEPT ![canceller.s].queue = UnblockedQueue(@)]
    /\ canceller' = [canceller EXCEPT !.pc = "holding"]
    /\ UNCHANGED <<now, registry, rows, starter, arrivals>>
    /\ UNCHANGED <<vaultVars, saltVars, textVars, cmdVars, startCall>>

----------------------------------------------------------------------------
\* The salt file of the older vault: src/src-tauri/src/lib.rs
\* get_or_create_salt, called once by every start of the application.

MaxSaltCalls == 3    \* calls of get_or_create_salt over a behaviour

SaltLen == 32        \* bytes of a salt
PartialLen == 16     \* bytes in the file when write_all stops half-way

SaltCallers == {"p1", "p2"}      \* application processes starting up
Salts == {"saltA", "saltB"}      \* what getrandom can produce

NoFile == [exists |-> FALSE, len |-> 0, bytes |-> None]
IdleSaltCall == [pc |-> "idle", seen |-> NoFile, ret |-> None]

\* A mutation of the open: an existing file is opened for writing too.
CreateNewFailsNever(f) == FALSE

\* lib.rs:24-28 OpenOptions::create_new(true): the open fails with
\* AlreadyExists when the path exists, and creates an empty file otherwise.
CreateNewFails(f) == f.exists

\* lib.rs:22-37 the open.  seen is a ghost: the file the call found.
SaltOpen(c) ==
    /\ saltCall[c].pc = "idle"
    /\ saltCalls < MaxSaltCalls
    /\ saltCalls' = saltCalls + 1
    /\ IF CreateNewFails(saltFile)
         THEN /\ saltCall' = [saltCall EXCEPT ![c] =
                    [pc |-> "exists", seen |-> saltFile, ret |-> None]]
              /\ UNCHANGED saltFile
         ELSE /\ saltCall' = [saltCall EXCEPT ![c] =
                    [pc |-> "created", seen |-> saltFile, ret |-> None]]
              /\ saltFile' = [exists |-> TRUE, len |-> 0, bytes |-> None]
    /\ UNCHANGED <<vaultVars, oauthVars, textVars, cmdVars, startCall>>

\* lib.rs:72 the open fails for another reason: panic.
SaltOpenError(c) ==
    /\ saltCall[c].pc = "idle"
    /\ saltCalls < MaxSaltCalls
    /\ saltCalls' = saltCalls + 1
    /\ saltCall' = [saltCall EXCEPT ![c] =
                      [pc |-> "panicked", seen |-> saltFile,
                       ret |-> "failed to create salt file"]]
    /\ UNCHANGED saltFile
    /\ UNCHANGED <<vaultVars, oauthVars, textVars, cmdVars, startCall>>

\* lib.rs:39-59 a new salt is generated, written and synced, and returned.
SaltWrite(c, salt) ==
    /\ saltCall[c].pc = "created"
    /\ saltFile' = [exists |-> TRUE, len |-> SaltLen, bytes |-> salt]
    /\ saltCall' = [saltCall EXCEPT ![c].pc = "returned", ![c].ret = salt]
    /\ UNCHANGED saltCalls
    /\ UNCHANGED <<vaultVars, oauthVars, textVars, cmdVars, startCall>>

\* lib.rs:42 write_all fails after a part of the salt: expect() panics.
SaltWriteError(c) ==
    /\ saltCall[c].pc = "created"
    /\ saltFile' = [exists |-> TRUE, len |-> PartialLen, bytes |-> None]
    /\ saltCall' = [saltCall EXCEPT ![c].pc = "panicked",
                                    ![c].ret = "failed to write salt file"]
    /\ UNCHANGED saltCalls
    /\ UNCHANGED <<vaultVars, oauthVars, textVars, cmdVars, startCall>>

\* lib.rs:61-71 the file exists: it is read, and its length is asserted.
SaltRead(c) ==
    /\ saltCall[c].pc = "exists"
    /\ saltCall' = [saltCall EXCEPT ![c] =
                      IF saltFile.len = SaltLen
                        THEN [@ EXCEPT !.pc = "returned", !.ret = saltFile.bytes]
                        ELSE [@ EXCEPT !.pc = "panicked",
                                       !.ret = "corrupted salt file"]]
    /\ UNCHANGED <<saltFile, saltCalls>>
    /\ UNCHANGED <<vaultVars, oauthVars, textVars, cmdVars, startCall>>

\* The process that called ends (normally, by the panic, or killed at any
\* point of the call); a later start of the application calls again.
SaltExit(c) ==
    /\ saltCall[c].pc # "idle"
    /\ saltCall' = [saltCall EXCEPT ![c] = IdleSaltCall]
    /\ UNCHANGED <<saltFile, saltCalls>>
    /\ UNCHANGED <<vaultVars, oauthVars, textVars, cmdVars, startCall>>

SaltNext ==
    \/ \E c \in SaltCallers : SaltOpen(c)
    \/ \E c \in SaltCallers : SaltOpenError(c)
    \/ \E c \in SaltCallers, salt \in Salts : SaltWrite(c, salt)
    \/ \E c \in SaltCallers : SaltWriteError(c)
    \/ \E c \in SaltCallers : SaltRead(c)
    \/ \E c \in SaltCallers : SaltExit(c)

----------------------------------------------------------------------------
\* Errors shown to the UI (error.rs).  A text is a sequence of fragments: the
\* literal parts of a format string and the values put in their places.

MaxFailures == 2

\* Inner cause messages of the store library; they may embed byte payloads.
Causes == {"io: permission denied", "record 6b 65 79 3a 41"}

\* The prefixes secrets.rs puts before the cause.
SecretStoreOps ==
    {"key provider error: ", "load snapshot: ", "load client: ", "get client: ",
     "store insert: ", "store get: ", "store get (pre-delete): ",
     "store delete: ", "commit snapshot: "}

AppError(variant, msg) == [variant |-> variant, msg |-> msg]

\* AppError::SecretStore(format!("<op>{e}"))
SecretStoreError(prefix, cause) == AppError("SecretStore", <<prefix, cause>>)

SecretStoreNotInitialized == AppError("SecretStore", <<"secret store not initialized">>)
CorruptedApiKeyData == AppError("Internal", <<"Corrupted API key data">>)
SpawnBlockingError(cause) == AppError("Internal", <<"spawn_blocking: ", cause>>)

AppErrors ==
    { SecretStoreError(p, c) : p \in SecretStoreOps, c \in Causes }
      \cup { SecretStoreNotInitialized, CorruptedApiKeyData }
      \cup { SpawnBlockingError(c) : c \in Causes }
      \cup { AppError("Database", <<c>>) : c \in Causes }
      \cup { AppError("Validation", <<"Invalid provider">>),
             AppError("NotFound", <<"Conversation">>),
             AppError("ApiKeyNotConfigured", <<>>),
             AppError("Placement", <<"no monitor">>) }

\* #[error("...")]: what to_string() gives.
Display(e) ==
    CASE e.variant = "Database" -> <<"Operation failed">>
      [] e.variant = "NotFound" -> e.msg \o <<" not found">>
      [] e.variant = "Validation" -> e.msg
      [] e.variant = "Internal" -> <<"Internal error">>
      [] e.variant = "ApiKeyNotConfigured" -> <<"API key not configured">>
      [] e.variant = "SecretStore" -> <<"Secret storage error">>
      [] e.variant = "Placement" -> <<"Window placement failed">>

SerializeShowsMessage(e) ==
    CASE e.variant = "Database" ->
            [shown |-> <<"A database error occurred">>, logged |-> e.msg]
      [] e.variant = "Internal" ->
            [shown |-> <<"An internal error occurred">>, logged |-> e.msg]
      [] e.variant = "SecretStore" ->
            [shown |-> <<"Secret storage error: ">> \o e.msg, logged |-> e.msg]
      [] e.variant = "Placement" ->
            [shown |-> Display(e), logged |-> e.msg]
      [] OTHER ->
            [shown |-> Display(e), logged |-> <<>>]

\* impl Serialize for AppError: the text the UI gets and what goes to the log.
Serialize(e) ==
    CASE e.variant = "Database" ->
            [shown |-> <<"A database error occurred">>, logged |-> e.msg]
      [] e.variant = "Internal" ->
            [shown |-> <<"An internal error occurred">>, logged |-> e.msg]
      [] e.variant = "SecretStore" ->
            [shown |-> <<"An internal error occurred">>, logged |-> e.msg]
      [] e.variant = "Placement" ->
            [shown |-> Display(e), logged |-> e.msg]
      [] OTHER ->
            [shown |-> Display(e), logged |-> <<>>]

\* A command returns Err(e); the error is serialized for the UI.
CommandFails(e) ==
    /\ Len(failures) < MaxFailures
    /\ failures' = Append(failures, [err |-> e,
                                     shown |-> Serialize(e).shown,
                                     logged |-> Serialize(e).logged])
    /\ UNCHANGED <<vaultVars, oauthVars, saltVars, cmdVars, startCall, textStore, textRead, sanitized>>

ErrorNext == \E e \in AppErrors : CommandFails(e)

----------------------------------------------------------------------------
\* Secrets read as text (commands.rs get_api_key, lib.rs load_secret_string).

MaxBytes == 2

\* 'A', and the two bytes that encode U+00E9.
Bytes == {65, 195, 169}

ByteStrings == UNION { [1..n -> Bytes] : n \in 0..MaxBytes }

FalKey == "fal_api_key"
Providers == {"openai", "", "open ai"}
TextKeys == {FalKey, "api_key:openai"}

\* Option<Vec<u8>>
NoEntry == [some |-> FALSE, bytes |-> <<>>]
SomeBytes(b) == [some |-> TRUE, bytes |-> b]
Entries == {NoEntry} \cup { SomeBytes(b) : b \in ByteStrings }

NoError == AppError("none", <<>>)

\* String::from_utf8 for one- and two-byte sequences: the code points, or
\* failure.
RECURSIVE from_utf8(_)
from_utf8(b) ==
    IF b = <<>> THEN [ok |-> TRUE, text |-> <<>>]
    ELSE IF b[1] < 128
      THEN LET rest == from_utf8(Tail(b))
           IN  IF rest.ok THEN [ok |-> TRUE, text |-> <<b[1]>> \o rest.text]
                          ELSE [ok |-> FALSE, text |-> <<>>]
    ELSE IF b[1] \in 194..223 /\ Len(b) >= 2 /\ b[2] \in 128..191
      THEN LET rest == from_utf8(Tail(Tail(b)))
           IN  IF rest.ok
                 THEN [ok |-> TRUE,
                       text |-> <<(b[1] - 192) * 64 + (b[2] - 128)>> \o rest.text]
                 ELSE [ok |-> FALSE, text |-> <<>>]
    ELSE [ok |-> FALSE, text |-> <<>>]

\* Results of the readers: Ok(None), Ok(Some(text)), Err(e); Option<String>
\* uses the first two.
NoneResult == [kind |-> "None", text |-> <<>>, err |-> NoError, shown |-> <<>>]
SomeResult(text) == [kind |-> "Some", text |-> text, err |-> NoError, shown |-> <<>>]
ErrResult(e) == [kind |-> "Err", text |-> <<>>, err |-> e, shown |-> Serialize(e).shown]

NoRead == [reader |-> "none", key |-> "none", got |-> NoEntry, failed |-> FALSE,
           result |-> NoneResult]

\* SecretStore::insert(key, value): any bytes can be stored under a key.
PutBytes(k, b) ==
    /\ textStore' = [textStore EXCEPT ![k] = SomeBytes(b)]
    /\ UNCHANGED <<vaultVars, oauthVars, saltVars, cmdVars, startCall, failures, textRead, sanitized>>

\* SecretStore::remove(key)
RemoveBytes(k) ==
    /\ textStore[k].some
    /\ textStore' = [textStore EXCEPT ![k] = NoEntry]
    /\ UNCHANGED <<vaultVars, oauthVars, saltVars, cmdVars, startCall, failures, textRead, sanitized>>

validate_provider(p) ==
    IF p = "" THEN AppError("Validation", <<"Provider name", " must be 1-", "50", " characters">>)
    ELSE IF p = "open ai" THEN AppError("Validation", <<"Provider name", " contains invalid characters">>)
    ELSE NoError

\* format!("api_key:{}", provider)
store_key(p) == IF p = "openai" THEN "api_key:openai" ELSE "none"

\* data.map(|bytes| String::from_utf8(bytes).map_err(..)).transpose()
GetApiKeyText(entry) ==
    IF ~entry.some THEN NoneResult
    ELSE IF from_utf8(entry.bytes).ok THEN SomeResult(from_utf8(entry.bytes).text)
    ELSE ErrResult(CorruptedApiKeyData)

\* The get_api_key command for provider p; fault is the error of store.get,
\* if it fails.
get_api_key(p, fault) ==
    /\ textRead' =
         IF validate_provider(p) # NoError
           THEN [reader |-> "get_api_key", key |-> "none", got |-> NoEntry,
                 failed |-> FALSE, result |-> ErrResult(validate_provider(p))]
         ELSE IF fault # NoError
           THEN [reader |-> "get_api_key", key |-> store_key(p), got |-> NoEntry,
                 failed |-> TRUE, result |-> ErrResult(fault)]
         ELSE [reader |-> "get_api_key", key |-> store_key(p),
               got |-> textStore[store_key(p)], failed |-> FALSE,
               result |-> GetApiKeyText(textStore[store_key(p)])]
    /\ UNCHANGED <<vaultVars, oauthVars, saltVars, cmdVars, startCall, failures, textStore, sanitized>>

\* store.get(key).ok().flatten().and_then(|bytes| String::from_utf8(bytes).ok())
load_secret_string(entry, fault) ==
    IF fault # NoError THEN NoneResult
    ELSE IF ~entry.some THEN NoneResult
    ELSE IF from_utf8(entry.bytes).ok THEN SomeResult(from_utf8(entry.bytes).text)
    ELSE NoneResult

\* The startup read of the Fal key that warms FalKeyCache.
WarmCache(fault) ==
    /\ textRead' = [reader |-> "load_secret_string", key |-> FalKey,
                    got |-> IF fault # NoError THEN NoEntry ELSE textStore[FalKey],
                    failed |-> fault # NoError,
                    result |-> load_secret_string(textStore[FalKey], fault)]
    /\ UNCHANGED <<vaultVars, oauthVars, saltVars, cmdVars, startCall, failures, textStore, sanitized>>

GetFaults == {NoError} \cup { SecretStoreError("store get: ", c) : c \in Causes }

TextNext ==
    \/ \E k \in TextKeys, b \in ByteStrings : PutBytes(k, b)
    \/ \E k \in TextKeys : RemoveBytes(k)
    \/ \E p \in Providers, fault \in GetFaults : get_api_key(p, fault)
    \/ \E fault \in GetFaults : WarmCache(fault)

----------------------------------------------------------------------------
\* Error bodies made safe for the log (error.rs sanitize_error_body).  A
\* character is [ch, at]: the character and, as a ghost, its position in the
\* body it came from (0 for characters the function itself writes).

MIN_KEY_LEN == 40
ERROR_BODY_MAX_LEN == 200
MaxSegments == 2

\* Sample characters: key characters, a plain one, a control one.
BodyChars == {"a", "-", " ", "\n"}
SegmentLens == {1, MIN_KEY_LEN - 1, MIN_KEY_LEN, MIN_KEY_LEN + 1}
Segments == [ch : BodyChars, len : SegmentLens]

MaxLens == {0, 1, 2, MIN_KEY_LEN - 1, MIN_KEY_LEN, MIN_KEY_LEN + 1,
            MIN_KEY_LEN + 2, 2 * MIN_KEY_LEN - 1, 2 * MIN_KEY_LEN,
            2 * MIN_KEY_LEN + 1, ERROR_BODY_MAX_LEN}

\* The characters of the segments, one after the other.
RECURSIVE CharsOf(_)
CharsOf(segs) ==
    IF segs = <<>> THEN <<>>
    ELSE [i \in 1..segs[1].len |-> segs[1].ch] \o CharsOf(Tail(segs))

\* The body made of the segments, each character with its position.
BodyOf(segs) ==
    LET chars == CharsOf(segs)
    IN  [i \in 1..Len(chars) |-> [ch |-> chars[i], at |-> i]]

Bodies == { BodyOf(segs) : segs \in UNION { [1..n -> Segments] : n \in 0..MaxSegments } }

QuestionMark(i) == [ch |-> "?", at |-> i]
Redacted == [ch |-> "[REDACTED]", at |-> 0]

\* c.is_control()
is_control(c) == c.ch = "\n"

\* c.is_ascii_alphanumeric() || c == '-' || c == '_'
is_key_char(c) == c.ch \in {"a", "-"}

\* The loop of redact_long_tokens from index i on, and what follows it: what
\* is pushed to the result from there.  token_start = 0 stands for None.
RECURSIVE RedactFrom(_, _, _)
RedactFrom(s, i, token_start) ==
    IF i > Len(s)
      THEN IF token_start = 0 THEN <<>>
           ELSE IF Len(s) + 1 - token_start >= MIN_KEY_LEN
             THEN <<Redacted>>
             ELSE SubSeq(s, token_start, Len(s))
      ELSE CASE is_key_char(s[i]) /\ token_start = 0 ->
                    RedactFrom(s, i + 1, i)
             [] is_key_char(s[i]) /\ token_start # 0 ->
                    RedactFrom(s, i + 1, token_start)
             [] ~is_key_char(s[i]) /\ token_start # 0 ->
                    (IF i - token_start >= MIN_KEY_LEN
                       THEN <<Redacted>>
                       ELSE SubSeq(s, token_start, i - 1))
                      \o <<s[i]>> \o RedactFrom(s, i + 1, 0)
             [] ~is_key_char(s[i]) /\ token_start = 0 ->
                    <<s[i]>> \o RedactFrom(s, i + 1, 0)

redact_long_tokens(s) == RedactFrom(s, 1, 0)

\* body.chars().take(max_len).map(..).collect(), then redact_long_tokens.
sanitize_error_body(body, max_len) ==
    LET n == IF Len(body) < max_len THEN Len(body) ELSE max_len
        taken == [i \in 1..n |-> IF is_control(body[i]) THEN QuestionMark(i)
                                                         ELSE body[i]]
    IN  redact_long_tokens(taken)

NotSanitized == [called |-> FALSE, body |-> <<>>, max_len |-> 0, out |-> <<>>]

\* An error body is made safe before it is logged.  Calls do not depend on
\* one another: the model follows one.
SanitizeErrorBody(body, max_len) ==
    /\ ~sanitized.called
    /\ sanitized' = [called |-> TRUE, body |-> body, max_len |-> max_len,
                     out |-> sanitize_error_body(body, max_len)]
    /\ UNCHANGED <<vaultVars, oauthVars, saltVars, cmdVars, startCall, failures, textStore, textRead>>

SanitizeNext == \E body \in Bodies, max_len \in MaxLens : SanitizeErrorBody(body, max_len)

----------------------------------------------------------------------------
\* The Fal key commands and FalKeyCache (commands.rs store_fal_api_key,
\* has_fal_api_key, delete_fal_api_key).  A key text is the sequence of its
\* code points.

FalHandlers == {"h1", "h2"}

\* "A", "é"; the empty text and a blank.
KeyTexts == {<<65>>, <<233>>, <<>>, <<32>>}

\* str::as_bytes: the UTF-8 encoding, for code points below 2048.
RECURSIVE as_bytes(_)
as_bytes(text) ==
    IF text = <<>> THEN <<>>
    ELSE IF text[1] < 128 THEN <<text[1]>> \o as_bytes(Tail(text))
    ELSE <<192 + (text[1] \div 64), 128 + (text[1] % 64)>> \o as_bytes(Tail(text))

\* value.trim().is_empty() of validate_non_empty_bounded
TrimIsEmpty(text) == \A i \in DOMAIN text : text[i] = 32

\* validate_api_key
validate_api_key(text) ==
    IF TrimIsEmpty(text)
      THEN AppError("Validation", <<"API key", " must not be empty">>)
      ELSE NoError

\* Option<String>
NoKey == [some |-> FALSE, text |-> <<>>]
SomeKey(text) == [some |-> TRUE, text |-> text]

\* clean is a ghost: no command of this handler has failed so far.
IdleFalCall == [pc |-> "idle", kind |-> "none", key |-> <<>>, status |-> "none",
                clean |-> TRUE]

\* A handler starts store_fal_api_key(key) or delete_fal_api_key; the store
\* command validates the key first.
FalCommand(h, kind, key) ==
    /\ falCall[h].pc = "idle"
    /\ kind = "delete" => key = <<>>
    /\ falCall' = [falCall EXCEPT ![h] =
         IF kind = "store" /\ validate_api_key(key) # NoError
           THEN [@ EXCEPT !.pc = "done", !.kind = kind, !.key = key,
                          !.status = "validation", !.clean = FALSE]
           ELSE [@ EXCEPT !.pc = "vault", !.kind = kind, !.key = key,
                          !.status = "none"]]
    /\ UNCHANGED <<falVault, falCache, legacyKeys, exaFlag, deskKeys, mcp, mcpCall>>
    /\ UNCHANGED <<vaultVars, oauthVars, saltVars, textVars, startCall>>

\* blocking(store.insert("fal_api_key", bytes)) / blocking(store.remove(..)):
\* one operation under the store's lock.  fault: "none"; "store", the store
\* call fails and nothing changes; "commit", the change is made and the
\* commit fails.
FalVaultOp(h, fault) ==
    /\ falCall[h].pc = "vault"
    /\ LET c == falCall[h]
           changed == IF c.kind = "store" THEN SomeBytes(as_bytes(c.key)) ELSE NoEntry
           skips == c.kind = "delete" /\ ~falVault.some
       IN  /\ skips => fault = "none"
           /\ falVault' = IF fault = "store" THEN falVault ELSE changed
           /\ falCall' = [falCall EXCEPT ![h] =
                IF fault = "none"
                  THEN [@ EXCEPT !.pc = "cache"]
                  ELSE [@ EXCEPT !.pc = "done", !.status = "secret_store",
                                 !.clean = FALSE]]
    /\ UNCHANGED <<falCache, legacyKeys, exaFlag, deskKeys, mcp, mcpCall>>
    /\ UNCHANGED <<vaultVars, oauthVars, saltVars, textVars, startCall>>

\* *write_cache(..)? = Some(key) / None
CacheWrite(old, c) == IF c.kind = "store" THEN SomeKey(c.key) ELSE NoKey

\* The handler, back from the blocking pool, writes the cache and returns Ok.
FalCacheWrite(h) ==
    /\ falCall[h].pc = "cache"
    /\ falCache' = CacheWrite(falCache, falCall[h])
    /\ falCall' = [falCall EXCEPT ![h] = [@ EXCEPT !.pc = "done", !.status = "ok"]]
    /\ UNCHANGED <<falVault, legacyKeys, exaFlag, deskKeys, mcp, mcpCall>>
    /\ UNCHANGED <<vaultVars, oauthVars, saltVars, textVars, startCall>>

\* The command's result is taken; the handler is free again.
FalReturn(h) ==
    /\ falCall[h].pc = "done"
    /\ falCall' = [falCall EXCEPT ![h] = [IdleFalCall EXCEPT !.clean = falCall[h].clean]]
    /\ UNCHANGED <<falVault, falCache, legacyKeys, exaFlag, deskKeys, mcp, mcpCall>>
    /\ UNCHANGED <<vaultVars, oauthVars, saltVars, textVars, startCall>>

\* has_fal_api_key: read_cache(..)?.is_some()
has_fal_api_key == falCache.some

FalNext ==
    \/ \E h \in FalHandlers, kind \in {"store", "delete"}, key \in KeyTexts :
          FalCommand(h, kind, key)
    \/ \E h \in FalHandlers, fault \in {"none", "store", "commit"} : FalVaultOp(h, fault)
    \/ \E h \in FalHandlers : FalCacheWrite(h)
    \/ \E h \in FalHandlers : FalReturn(h)

----------------------------------------------------------------------------
----------------------------------------------------------------------------
\* The provider key commands of both vaults: store_api_key, get_api_key,
\* has_api_key, delete_api_key (apps/desktop commands.rs and src/src-tauri
\* commands.rs) and store_exa_api_key, delete_exa_api_key (src/src-tauri).
\* Each command of the older vault runs under the vault's mutex from its
\* first store call to its return.

EXA_VAULT_PROVIDER == "exa"
KeyProviders == {EXA_VAULT_PROVIDER, "openai"}

\* api_key.is_empty() of the older store_api_key
InvalidApiKey(text) == text = <<>>

\* store().insert(key, value, None), then commit_vault; the entry is in the
\* store whether or not the commit succeeds.
LegacyInsert(p, bytes) == legacyKeys' = [legacyKeys EXCEPT ![p] = SomeBytes(bytes)]

\* src/src-tauri store_api_key
LegacyStoreApiKey(p, key) ==
    /\ IF \/ validate_provider(p) # NoError
          \/ p = EXA_VAULT_PROVIDER
          \/ InvalidApiKey(key)
         THEN UNCHANGED legacyKeys
         ELSE LegacyInsert(p, as_bytes(key))
    /\ UNCHANGED <<falVault, falCache, falCall, exaFlag, deskKeys, mcp, mcpCall>>
    /\ UNCHANGED <<vaultVars, oauthVars, saltVars, textVars, startCall>>

\* src/src-tauri delete_api_key: let _ = store().delete(key); commit_vault
LegacyDeleteApiKey(p) ==
    /\ IF validate_provider(p) # NoError \/ p = EXA_VAULT_PROVIDER
         THEN UNCHANGED legacyKeys
         ELSE legacyKeys' = [legacyKeys EXCEPT ![p] = NoEntry]
    /\ UNCHANGED <<falVault, falCache, falCall, exaFlag, deskKeys, mcp, mcpCall>>
    /\ UNCHANGED <<vaultVars, oauthVars, saltVars, textVars, startCall>>

\* write_exa_vault_key(app, b"api_key:exa", value, flag_value, op_name): the
\* insert, the commit, and the flag when the commit succeeded.
write_exa_vault_key(value, flag_value, committed) ==
    /\ LegacyInsert(EXA_VAULT_PROVIDER, value)
    /\ exaFlag' = IF committed THEN flag_value ELSE exaFlag

\* store_exa_api_key
StoreExaApiKey(key, committed) ==
    /\ IF validate_api_key(key) # NoError
         THEN UNCHANGED <<legacyKeys, exaFlag>>
         ELSE write_exa_vault_key(as_bytes(key), TRUE, committed)
    /\ UNCHANGED <<falVault, falCache, falCall, deskKeys, mcp, mcpCall>>
    /\ UNCHANGED <<vaultVars, oauthVars, saltVars, textVars, startCall>>

\* delete_exa_api_key: writes the empty value under the key.
DeleteExaApiKey(committed) ==
    /\ write_exa_vault_key(<<>>, FALSE, committed)
    /\ UNCHANGED <<falVault, falCache, falCall, deskKeys, mcp, mcpCall>>
    /\ UNCHANGED <<vaultVars, oauthVars, saltVars, textVars, startCall>>

\* src/src-tauri get_api_key: data.filter(|b| !b.is_empty()), from_utf8
legacy_get_api_key(p) ==
    IF validate_provider(p) # NoError THEN ErrResult(validate_provider(p))
    ELSE IF ~legacyKeys[p].some \/ legacyKeys[p].bytes = <<>> THEN NoneResult
    ELSE IF from_utf8(legacyKeys[p].bytes).ok
      THEN SomeResult(from_utf8(legacyKeys[p].bytes).text)
    ELSE ErrResult(CorruptedApiKeyData)

\* src/src-tauri has_api_key: Ok(Some(_)) => Ok(true), Ok(None) => Ok(false)
legacy_has_api_key(p) == legacyKeys[p].some

\* apps/desktop store_api_key
DesktopStoreApiKey(p, key) ==
    /\ IF validate_provider(p) # NoError \/ validate_api_key(key) # NoError
         THEN UNCHANGED deskKeys
         ELSE deskKeys' = [deskKeys EXCEPT ![p] = SomeBytes(as_bytes(key))]
    /\ UNCHANGED <<falVault, falCache, falCall, legacyKeys, exaFlag, mcp, mcpCall>>
    /\ UNCHANGED <<vaultVars, oauthVars, saltVars, textVars, startCall>>

\* apps/desktop delete_api_key
DesktopDeleteApiKey(p) ==
    /\ IF validate_provider(p) # NoError
         THEN UNCHANGED deskKeys
         ELSE deskKeys' = [deskKeys EXCEPT ![p] = NoEntry]
    /\ UNCHANGED <<falVault, falCache, falCall, legacyKeys, exaFlag, mcp, mcpCall>>
    /\ UNCHANGED <<vaultVars, oauthVars, saltVars, textVars, startCall>>

\* apps/desktop has_api_key: data.is_some()
has_api_key(p) == deskKeys[p].some

KeyNext ==
    \/ \E p \in KeyProviders \cup {""}, key \in KeyTexts : LegacyStoreApiKey(p, key)
    \/ \E p \in KeyProviders \cup {""} : LegacyDeleteApiKey(p)
    \/ \E key \in KeyTexts, committed \in BOOLEAN : StoreExaApiKey(key, committed)
    \/ \E committed \in BOOLEAN : DeleteExaApiKey(committed)
    \/ \E p \in KeyProviders \cup {""}, key \in KeyTexts : DesktopStoreApiKey(p, key)
    \/ \E p \in KeyProviders \cup {""} : DesktopDeleteApiKey(p)

----------------------------------------------------------------------------
\* delete_mcp_server and delete_mcp_secret_entries (apps/desktop
\* commands.rs), for one server id, with the commands that create the row
\* (add_mcp_server) and that write and remove the server's secret entries
\* (store_api_key with provider "mcp:<id><suffix>").  The section follows
\* the command through the database and the vault; the registry of the id
\* is the one flag mcp.handle here.

MaxMcpCalls == 3
MAX_PROVIDER_LENGTH == 50
\* "mcp:" and the 36 characters of a UUID
McpProviderLen == 40

\* for suffix in ["", ":tokens", ":client_info", ":code_verifier"]
McpSuffixes == <<"", ":tokens", ":client_info", ":code_verifier">>
SuffixLen == <<0, 7, 12, 14>>
SuffixIds == DOMAIN McpSuffixes

McpIds == {"srv", "not-a-uuid"}

\* uuid::Uuid::parse_str(id)
validate_uuid(id) == id = "srv"

\* validate_identifier(provider, MAX_PROVIDER_LENGTH, ..) on "mcp:<id><suffix>"
ValidMcpProvider(i) == McpProviderLen + SuffixLen[i] <= MAX_PROVIDER_LENGTH

NoMcpServer == [created |-> FALSE, row |-> FALSE, handle |-> FALSE,
                secrets |-> {}, failedDelete |-> FALSE]

IdleMcpCall == [pc |-> "idle", id |-> "srv", result |-> "none",
                rowDeleted |-> FALSE, fault |-> FALSE, afterFailed |-> FALSE,
                calls |-> 0]

McpFrame ==
    /\ UNCHANGED <<falVault, falCache, falCall, legacyKeys, exaFlag, deskKeys>>
    /\ UNCHANGED <<vaultVars, oauthVars, saltVars, textVars, startCall>>

\* add_mcp_server: gen_id() names the row, so a row is created once per id;
\* store_mcp_secret writes api_key:mcp:<id> when an api_key is given.
CreateMcpServer(withKey) ==
    /\ mcpCall.pc = "idle"
    /\ ~mcp.created
    /\ mcp' = [mcp EXCEPT !.created = TRUE, !.row = TRUE,
                          !.secrets = IF withKey THEN {1} ELSE {}]
    /\ UNCHANGED mcpCall
    /\ McpFrame

\* store_api_key("mcp:<id><suffix>", key)
StoreMcpEntry(i) ==
    /\ mcpCall.pc = "idle"
    /\ mcp.created
    /\ ValidMcpProvider(i)
    /\ mcp' = [mcp EXCEPT !.secrets = @ \cup {i}]
    /\ UNCHANGED mcpCall
    /\ McpFrame

\* start_oauth_callback_server(.., Some(id)): map.insert(id, handle)
RegisterMcpSession ==
    /\ mcpCall.pc = "idle"
    /\ mcp.created
    /\ mcp' = [mcp EXCEPT !.handle = TRUE]
    /\ UNCHANGED mcpCall
    /\ McpFrame

\* delete_mcp_server(id): validate_uuid(&id)?
BeginDeleteMcpServer(id) ==
    /\ mcpCall.pc = "idle"
    /\ mcpCall.calls < MaxMcpCalls
    /\ mcpCall' = [pc |-> IF validate_uuid(id) THEN "row" ELSE "returned",
                   id |-> id,
                   result |-> IF validate_uuid(id) THEN "none" ELSE "InvalidId",
                   rowDeleted |-> FALSE, fault |-> FALSE,
                   afterFailed |-> mcp.failedDelete,
                   calls |-> mcpCall.calls + 1]
    /\ UNCHANGED mcp
    /\ McpFrame

\* DELETE FROM mcp_servers WHERE id = ?; rows_affected() == 0 is NotFound;
\* then map.remove(&id) and handle.shutdown().
McpDeleteRow(dbError) ==
    /\ mcpCall.pc = "row"
    /\ IF dbError
         THEN /\ mcpCall' = [mcpCall EXCEPT !.pc = "returned", !.result = "Database",
                                            !.fault = TRUE]
              /\ UNCHANGED mcp
       ELSE IF ~mcp.row
         THEN /\ mcpCall' = [mcpCall EXCEPT !.pc = "returned", !.result = "NotFound"]
              /\ UNCHANGED mcp
       ELSE /\ mcpCall' = [mcpCall EXCEPT !.pc = "secrets", !.rowDeleted = TRUE]
            /\ mcp' = [mcp EXCEPT !.row = FALSE, !.handle = FALSE]
    /\ McpFrame

\* The entries left by the loop of delete_mcp_secret_entries when its remove
\* number failAt returns an error (0: none does); afterDelete says the error
\* is the one of save(), met after the entry left the store.
SecretsAfter(secrets, failAt, afterDelete) ==
    IF failAt = 0 THEN {}
    ELSE {i \in secrets : i > failAt \/ (i = failAt /\ ~afterDelete)}

\* delete_mcp_secret_entries(&store, &id).await?; Ok(())
McpDeleteSecrets(failAt, afterDelete) ==
    /\ mcpCall.pc = "secrets"
    /\ afterDelete => failAt \in mcp.secrets
    /\ mcp' = [mcp EXCEPT !.secrets = SecretsAfter(mcp.secrets, failAt, afterDelete)]
    /\ mcpCall' = [mcpCall EXCEPT !.pc = "returned",
                                  !.result = IF failAt = 0 THEN "Ok" ELSE "SecretStore",
                                  !.fault = failAt # 0]
    /\ McpFrame

\* The command's result reaches the caller.
McpReturn ==
    /\ mcpCall.pc = "returned"
    /\ mcpCall' = [mcpCall EXCEPT !.pc = "idle"]
    /\ mcp' = [mcp EXCEPT !.failedDelete =
                    IF mcpCall.id # "srv" THEN @
                    ELSE IF mcpCall.rowDeleted /\ mcpCall.result # "Ok" THEN TRUE
                    ELSE IF mcpCall.result = "Ok" THEN FALSE
                    ELSE @]
    /\ McpFrame

McpNext ==
    \/ \E withKey \in BOOLEAN : CreateMcpServer(withKey)
    \/ \E i \in SuffixIds : StoreMcpEntry(i)
    \/ RegisterMcpSession
    \/ \E id \in McpIds : BeginDeleteMcpServer(id)
    \/ \E dbError \in BOOLEAN : McpDeleteRow(dbError)
    \/ \E failAt \in {0} \cup SuffixIds, afterDelete \in BOOLEAN :
          McpDeleteSecrets(failAt, afterDelete)
    \/ McpReturn

----------------------------------------------------------------------------
\* start_oauth_callback_server (apps/desktop commands.rs): the checks of
\* expected_state that come before start_callback_server.  A state text is a
\* sequence of runs [ch, n]: n times the character ch.

MAX_STATE_LEN == 256
MaxRuns == 2
StateChars == {"a", "7", "-", "_", ".", " ", "e-acute"}
RunLens == {1, 255, 256}
StateRuns == [ch : StateChars, n : RunLens]
StateTexts == UNION {[1..k -> StateRuns] : k \in 0..MaxRuns}

\* char::len_utf8
len_utf8(ch) == IF ch = "e-acute" THEN 2 ELSE 1

\* str::len: the number of bytes
RECURSIVE StateLen(_)
StateLen(st) ==
    IF st = <<>> THEN 0
    ELSE Head(st).n * len_utf8(Head(st).ch) + StateLen(Tail(st))

\* c.is_ascii_alphanumeric() || c == '-' || c == '_' || c == '.'
is_state_char(ch) == ch \in {"a", "7", "-", "_", "."}

\* AcceptAnyState leaves both checks out
AcceptAnyState(st) == NoError

\* commands.rs:1234-1246
validate_expected_state(st) ==
    IF st = <<>> \/ StateLen(st) > MAX_STATE_LEN
      THEN AppError("Validation", <<"OAuth state parameter must be 1-256 characters">>)
    ELSE IF ~(\A i \in DOMAIN st : is_state_char(st[i].ch))
      THEN AppError("Validation", <<"OAuth state parameter contains invalid characters">>)
    ELSE NoError

NoStartCall == [called |-> FALSE, state |-> <<>>, result |-> NoError]

\* start_oauth_callback_server(app, expected_state, server_id) up to the
\* return of start_callback_server; RegisterSession is its remainder.
StartOauthCallbackServer(s, id, st) ==
    /\ startCall' = [called |-> TRUE, state |-> st, result |-> validate_expected_state(st)]
    /\ IF validate_expected_state(st) # NoError
         THEN /\ starter.pc = "idle"
              /\ UNCHANGED <<oauthVars, vaultVars, saltVars, textVars, cmdVars>>
         ELSE StartListener(s, id)

StartNext ==
    \/ \E s \in Sessions, id \in ServerIds \cup {NoId}, st \in StateTexts :
          StartOauthCallbackServer(s, id, st)
    \/ RegisterSession

Init ==
    /\ app = "down"
    /\ disk = NoDisk
    /\ store = {}
    /\ lock = [holder |-> NoHolder, poisoned |-> FALSE]
    /\ pc = [t \in Threads |-> "idle"]
    /\ op = [t \in Threads |-> NoOp]
    /\ buf = [t \in Threads |-> {}]
    /\ result = [t \in Threads |-> NoResult]
    /\ acked = [k \in Keys |-> None]
    /\ sinceOpen = [k \in Keys |-> FALSE]
    /\ nops = 0
    /\ restarts = 0
    /\ now = 0
    /\ session = [s \in Sessions |-> UnusedSession]
    /\ registry = [id \in ServerIds |-> NoSession]
    /\ rows = [id \in ServerIds |-> "none"]
    /\ starter = IdleStarter
    /\ canceller = IdleCanceller
    /\ arrivals = 0
    /\ saltFile = NoFile
    /\ saltCall = [c \in SaltCallers |-> IdleSaltCall]
    /\ saltCalls = 0
    /\ failures = <<>>
    /\ textStore = [k \in TextKeys |-> NoEntry]
    /\ textRead = NoRead
    /\ sanitized = NotSanitized
    /\ falVault = NoEntry
    /\ falCache = NoKey
    /\ falCall = [h \in FalHandlers |-> IdleFalCall]
    /\ legacyKeys = [p \in KeyProviders |-> NoEntry]
    /\ exaFlag = FALSE
    /\ deskKeys = [p \in KeyProviders |-> NoEntry]
    /\ mcp = NoMcpServer
    /\ mcpCall = IdleMcpCall
    /\ startCall = NoStartCall

Next ==
    \/ Open
    \/ Exit
    \/ Tamper
    \/ \E t \in Threads : Call(t)
    \/ \E t \in Threads : LockedClient(t)
    \/ \E t \in Threads : Insert(t)
    \/ \E t \in Threads : Get(t)
    \/ \E t \in Threads : Remove(t)
    \/ \E t \in Threads : CommitSerialize(t)
    \/ \E t \in Threads : CommitWrite(t)
    \/ \E t \in Threads : StoreError(t)
    \/ \E t \in Threads : Panic(t)
    \/ \E t \in Threads : Return(t)

Spec == Init /\ [][Next]_vars

----------------------------------------------------------------------------
\* The SecretStore when nothing fails: no store or commit error, no panic, no
\* restart.  Every worker that can take a step eventually takes it (the pool's
\* threads run, and a std Mutex is handed to a waiter once it is free and the
\* other workers have no more commands).

NextNoFault ==
    \/ Open
    \/ \E t \in Threads : Call(t)
    \/ \E t \in Threads : LockedClient(t)
    \/ \E t \in Threads : Insert(t)
    \/ \E t \in Threads : Get(t)
    \/ \E t \in Threads : Remove(t)
    \/ \E t \in Threads : CommitSerialize(t)
    \/ \E t \in Threads : CommitWriteWith(t, TRUE)
    \/ \E t \in Threads : Return(t)

WorkerStep(t) ==
    \/ LockedClient(t)
    \/ Insert(t)
    \/ Get(t)
    \/ Remove(t)
    \/ CommitSerialize(t)
    \/ CommitWriteWith(t, TRUE)

FairSpec ==
    /\ Init
    /\ [][NextNoFault]_vars
    /\ WF_vars(Open)
    /\ \A t \in Threads : WF_vars(WorkerStep(t))

----------------------------------------------------------------------------
\* The older vault: ApiKeyVault behind a Mutex<ApiKeyVault> (src/src-tauri).

\* lib.rs:112-150 init_api_key_vault: a snapshot that does not load is logged
\* and skipped ("failed to load API key vault, starting fresh"); the client is
\* then loaded or created.
InitApiKeyVault ==
    /\ app = "down"
    /\ LET loaded == IF disk.exists /\ disk.readable THEN disk ELSE NoDisk
           c == LoadOrCreateClient(loaded)
       IN  store' = c.store
    /\ app' = "running"
    /\ ResetWorkers
    /\ UNCHANGED <<disk, acked, sinceOpen, nops, restarts>>
    /\ UNCHANGED otherVars

\* commands.rs:289-299 lock_vault: a poisoned mutex is recovered with
\* into_inner(), then the client is fetched.
LockVault(t) ==
    /\ pc[t] = "called"
    /\ lock.holder = NoHolder
    /\ lock' = [lock EXCEPT !.holder = t]
    /\ pc' = [pc EXCEPT ![t] = "locked"]
    /\ UNCHANGED <<app, disk, store, op, buf, result, acked, sinceOpen, nops, restarts>>
    /\ UNCHANGED otherVars

\* commands.rs:833-854 delete_api_key: the delete's result is dropped and the
\* vault is committed whether or not the key was there.
DeleteApiKey(t) ==
    /\ pc[t] = "locked" /\ op[t].kind = "remove"
    /\ store' = StoreDelete(store, op[t].key)
    /\ pc' = [pc EXCEPT ![t] = "stored"]
    /\ result' = [result EXCEPT ![t].prev = StoreGet(store, op[t].key)]
    /\ acked' = [acked EXCEPT ![op[t].key] = Unknown]
    /\ sinceOpen' = [sinceOpen EXCEPT ![op[t].key] = TRUE]
    /\ UNCHANGED <<app, disk, lock, op, buf, nops, restarts>>
    /\ UNCHANGED otherVars

\* commands.rs:735-769 store_api_key, the store insert.
StoreApiKey(t) == Insert(t)

\* commands.rs:773-803 get_api_key (an empty value reads as None; store_api_key
\* stores none, and Values holds none).
GetApiKey(t) == Get(t)

\* commands.rs:663-677 commit_vault
CommitVault(t) == CommitSerialize(t) \/ CommitWrite(t)

LegacyNext ==
    \/ InitApiKeyVault
    \/ Exit
    \/ Tamper
    \/ \E t \in Threads : Call(t)
    \/ \E t \in Threads : LockVault(t)
    \/ \E t \in Threads : StoreApiKey(t)
    \/ \E t \in Threads : GetApiKey(t)
    \/ \E t \in Threads : DeleteApiKey(t)
    \/ \E t \in Threads : CommitVault(t)
    \/ \E t \in Threads : StoreError(t)
    \/ \E t \in Threads : Panic(t)
    \/ \E t \in Threads : Return(t)

LegacySpec == Init /\ [][LegacyNext]_vars

----------------------------------------------------------------------------
\* The OAuth capture: listeners, their workers, the commands and the clock.

\* One step of a session's worker thread that needs no time to pass.
WorkerRuns(s) ==
    \/ RunCallbackLoop(s)
    \/ CheckShutdown(s)
    \/ RecvRequest(s)
    \/ RecvUnblocked(s)
    \/ HandleRequest(s)

\* One step of a command handler.
HandlerRuns ==
    \/ RegisterSession
    \/ DeleteRemoveSession
    \/ ShutdownStore
    \/ ShutdownUnblock

OAuthNext ==
    \/ \E id \in ServerIds : AddMcpServer(id)
    \/ \E s \in FirstSession, id \in ServerIds \cup {NoId} : StartCallbackServer(s, id)
    \/ RegisterSession
    \/ \E id \in ServerIds : ShutdownOauthSession(id)
    \/ \E id \in ServerIds : DeleteMcpServer(id)
    \/ DeleteRemoveSession
    \/ ShutdownStore
    \/ ShutdownUnblock
    \/ \E s \in Sessions : RunCallbackLoop(s)
    \/ \E s \in Sessions : CheckShutdown(s)
    \/ \E s \in Sessions : RecvRequest(s)
    \/ \E s \in Sessions : RecvUnblocked(s)
    \/ \E s \in Sessions : RecvTimeout(s)
    \/ \E s \in Sessions : RecvError(s)
    \/ \E s \in Sessions : HandleRequest(s)
    \/ \E s \in Sessions, u \in Urls : Arrive(s, u)
    \/ Tick

OAuthSpec == Init /\ [][OAuthNext]_vars

\* The capture under the scheduler alone: threads that can run do run (the
\* worker thread, and a command handler between its lock and its return),
\* but no request has to arrive, no poll has to time out and no time has to
\* pass.
OAuthPromptSpec ==
    /\ Init
    /\ [][OAuthNext]_vars
    /\ \A s \in Sessions : WF_vars(WorkerRuns(s))
    /\ WF_vars(HandlerRuns)

\* The capture when the socket does not fail: time passes, a poll on an empty
\* queue returns after POLL_INTERVAL, and threads that can run do run.
OAuthNextNoFault ==
    \/ \E id \in ServerIds : AddMcpServer(id)
    \/ \E s \in FirstSession, id \in ServerIds \cup {NoId} : StartCallbackServer(s, id)
    \/ RegisterSession
    \/ \E id \in ServerIds : ShutdownOauthSession(id)
    \/ \E id \in ServerIds : DeleteMcpServer(id)
    \/ DeleteRemoveSession
    \/ ShutdownStore
    \/ ShutdownUnblock
    \/ \E s \in Sessions : RunCallbackLoop(s)
    \/ \E s \in Sessions : CheckShutdown(s)
    \/ \E s \in Sessions : RecvRequest(s)
    \/ \E s \in Sessions : RecvUnblocked(s)
    \/ \E s \in Sessions : RecvTimeout(s)
    \/ \E s \in Sessions : HandleRequest(s)
    \/ \E s \in Sessions, u \in Urls : Arrive(s, u)
    \/ Tick

OAuthFairSpec ==
    /\ Init
    /\ [][OAuthNextNoFault]_vars
    /\ \A s \in Sessions : WF_vars(WorkerRuns(s) \/ RecvTimeout(s))
    /\ WF_vars(HandlerRuns)
    /\ WF_vars(Tick)

\* The capture with holders of a handle that call shutdown() on it more
\* than once.
OAuthHandleNext ==
    \/ OAuthNextNoFault
    \/ ShutdownUnblockKeep

OAuthHandleSpec == Init /\ [][OAuthHandleNext]_vars

\* Captures started one after the other, also under one server id, while no
\* request arrives: the commands, the workers' polls and the clock.
OAuthRestartNext ==
    \/ \E s \in Sessions, id \in ServerIds \cup {NoId} : StartCallbackServer(s, id)
    \/ RegisterSession
    \/ \E id \in ServerIds : ShutdownOauthSession(id)
    \/ ShutdownStore
    \/ ShutdownUnblock
    \/ \E s \in Sessions : RunCallbackLoop(s)
    \/ \E s \in Sessions : CheckShutdown(s)
    \/ \E s \in Sessions : RecvUnblocked(s)
    \/ \E s \in Sessions : RecvTimeout(s)
    \/ Tick

OAuthRestartSpec == Init /\ [][OAuthRestartNext]_vars

\* The Fal key commands, run by two handlers.
FalSpec == Init /\ [][FalNext]_vars
KeySpec == Init /\ [][KeyNext]_vars
McpSpec == Init /\ [][McpNext]_vars
StartSpec == Init /\ [][StartNext]_vars

\* The salt file and the processes that call get_or_create_salt.
SaltSpec == Init /\ [][SaltNext]_vars

\* Commands that fail, and the texts the UI gets.
ErrorSpec == Init /\ [][ErrorNext]_vars

\* The secrets that are read as text.
TextSpec == Init /\ [][TextNext]_vars

\* Calls of sanitize_error_body.
SanitizeSpec == Init /\ [][SanitizeNext]_vars

----------------------------------------------------------------------------
\* Properties.

\* A worker's command returns in this step.
Returns(t) == pc[t] # "done" /\ pc'[t] = "done"

EntriesOf(s, k) == {e \in s : e[1] = k}

GotOk(t) == pc[t] = "done" /\ op[t].kind = "get" /\ result[t].status = "ok"

\* C1: once insert(key, value) has returned success, a following get(key) on
\* the same store, with no insert or remove of the key started in between,
\* returns exactly value.
C1_RoundTrip ==
    \A t \in Threads :
        (GotOk(t) /\ result[t].fresh /\ result[t].seen \in Values)
            => result[t].value = result[t].seen

C1_Witness ==
    \E t \in Threads :
        /\ GotOk(t) /\ result[t].fresh
        /\ result[t].seen \in Values
        /\ result[t].value = result[t].seen

InsertedOk(t) ==
    pc[t] = "done" /\ op[t].kind = "insert" /\ result[t].status = "ok"

\* Every worker ran one command, an insert, the keys are pairwise distinct, and
\* all inserts have returned success.
AllInsertedDistinct ==
    /\ nops = Cardinality(Threads)
    /\ \A t \in Threads : InsertedOk(t)
    /\ \A t, u \in Threads : t # u => op[t].key # op[u].key

\* C2: concurrent inserts on pairwise distinct keys (one per worker, when
\* nothing fails) all eventually return success, and once all have returned
\* every key is retrievable with its own value from the store in memory and
\* from the committed snapshot.
C2_ConcurrentInserts ==
    /\ \A t \in Threads :
          (pc[t] = "called" /\ op[t].kind = "insert")
              ~> (pc[t] = "done" /\ result[t].status = "ok")
    /\ [](AllInsertedDistinct =>
            \A t \in Threads :
                /\ StoreGet(store, op[t].key) = op[t].value
                /\ disk.exists /\ disk.readable
                /\ StoreGet(disk.entries, op[t].key) = op[t].value)

C2_Witness ==
    /\ AllInsertedDistinct
    /\ \A t \in Threads : StoreGet(disk.entries, op[t].key) = op[t].value

\* C3: a worker that is anywhere between obtaining the client and the end of
\* its commit holds the store lock, so at most one operation is there.
C3_LockHeldAcrossOperation ==
    /\ \A t \in Threads :
          pc[t] \in {"locked", "stored", "serialized"} => lock.holder = t
    /\ Cardinality({t \in Threads : pc[t] \in {"locked", "stored", "serialized"}}) <= 1

C3_Witness ==
    \E t, u \in Threads :
        /\ t # u
        /\ pc[t] = "serialized" /\ lock.holder = t
        /\ pc[u] = "called"

\* C4: after an operation panicked while holding the store lock, no later
\* operation panics or fails because the lock is poisoned.
C4_PoisonTolerant ==
    \A t \in Threads : ~(pc[t] = "done" /\ result[t].status = "poisoned")

\* C5: a snapshot file that exists and cannot be loaded never leads to a
\* running vault, and is never replaced by a later commit.
C5_FailClosed ==
    [][(disk.exists /\ ~disk.readable) => (app' # "running" /\ disk' = disk)]_vars

\* C6: insert returns success only from a commit that succeeded, and then the
\* snapshot file maps key to value; when the commit fails insert returns an
\* error, the file is as it was and the store in memory holds the new value.
C6_InsertCommits ==
    [][\A t \in Threads :
          (Returns(t) /\ op[t].kind = "insert") =>
              /\ result'[t].status = "ok" =>
                    /\ pc[t] = "serialized"
                    /\ disk'.exists /\ disk'.readable
                    /\ StoreGet(disk'.entries, op[t].key) = op[t].value
              /\ result'[t].status = "commit_err" =>
                    /\ disk' = disk
                    /\ StoreGet(store', op[t].key) = op[t].value]_vars

C6_Witness ==
    \E t \in Threads :
        /\ pc[t] = "done" /\ op[t].kind = "insert"
        /\ result[t].status = "commit_err"
        /\ StoreGet(store, op[t].key) = op[t].value
        /\ StoreGet(disk.entries, op[t].key) # op[t].value

AckedValue(a) == IF a = Removed THEN None ELSE a

\* C7: after a restart, get returns for every key what the last successful
\* insert or remove before the restart acknowledged.
C7_SurvivesRestart ==
    \A t \in Threads :
        (GotOk(t) /\ ~result[t].fresh /\ result[t].seen # Unknown)
            => result[t].value = AckedValue(result[t].seen)

\* C8: an insert that returns success over an entry holding another value
\* leaves exactly one entry of the key, with the new value, in the store in
\* memory and in the committed snapshot.
C8_Overwrite ==
    [][\A t \in Threads :
          (/\ Returns(t) /\ op[t].kind = "insert"
           /\ result'[t].status = "ok"
           /\ result[t].prev \in Values /\ result[t].prev # op[t].value) =>
              /\ EntriesOf(store', op[t].key) = {<<op[t].key, op[t].value>>}
              /\ EntriesOf(disk'.entries, op[t].key) = {<<op[t].key, op[t].value>>}]_vars

C8_Witness ==
    \E t \in Threads :
        /\ InsertedOk(t)
        /\ result[t].prev \in Values /\ result[t].prev # op[t].value
        /\ StoreGet(store, op[t].key) = op[t].value
        /\ StoreGet(disk.entries, op[t].key) = op[t].value

\* C9: remove of a key that is absent ends the operation at once: it returns
\* success (or the error of a failed store read), the store in memory is
\* unchanged and the snapshot file is not written.
C9_RemoveAbsent ==
    [][\A t \in Threads :
          (/\ pc[t] = "locked" /\ op[t].kind = "remove"
           /\ StoreGet(store, op[t].key) = None
           /\ pc'[t] # pc[t] /\ app' = app) =>
              /\ pc'[t] = "done"
              /\ result'[t].status \in {"ok", "store_err", "panic"}
              /\ store' = store
              /\ disk' = disk]_vars

C9_Witness ==
    \E t \in Threads :
        /\ pc[t] = "done" /\ op[t].kind = "remove"
        /\ result[t].status = "ok" /\ result[t].prev = Unknown
        /\ store # {}

\* C10: remove of a key that is present deletes that key only, and when it
\* returns success the key is in neither the store in memory nor the
\* committed snapshot; a following get of the key returns None.
C10_RemovePresent ==
    [][\A t \in Threads :
          /\ (/\ pc[t] = "locked" /\ op[t].kind = "remove"
               /\ StoreGet(store, op[t].key) # None
               /\ pc'[t] = "stored") =>
                  /\ StoreGet(store', op[t].key) = None
                  /\ \A k \in Keys \ {op[t].key} :
                        EntriesOf(store', k) = EntriesOf(store, k)
          /\ (/\ Returns(t) /\ op[t].kind = "remove" /\ result'[t].status = "ok"
               /\ pc[t] = "serialized") =>
                  /\ StoreGet(store', op[t].key) = None
                  /\ StoreGet(disk'.entries, op[t].key) = None
          /\ (/\ Returns(t) /\ op[t].kind = "get" /\ result'[t].status = "ok"
               /\ result'[t].fresh /\ result'[t].seen = Removed) =>
                  result'[t].value = None]_vars

C10_Witness ==
    \E t, u \in Threads :
        /\ t # u
        /\ GotOk(t) /\ result[t].fresh /\ result[t].seen = Removed
        /\ result[t].value = None
        /\ pc[u] = "done" /\ op[u].kind = "remove" /\ result[u].status = "ok"
        /\ result[u].prev \in Values
        /\ op[u].key = op[t].key

----------------------------------------------------------------------------
\* Properties of the OAuth callback listener.

Last(q) == q[Len(q)]

\* The worker of session s emits an event in this step.
Emits(s) == session'[s].emitted # session[s].emitted

\* The worker of session s emits the code event in this step.
EmitsCode(s) == Emits(s) /\ Last(session'[s].emitted).event = "mcp-oauth-code"

\* The worker of session s answers a request in this step.
Responds(s) == session'[s].responses # session[s].responses

\* The worker of session s deals in this step with the request it holds.
Handles(s) == session[s].wpc = "got" /\ session'[s].wpc # "got"

\* The number of code events among the events q.
CodeEvents(q) == Cardinality({i \in 1..Len(q) : q[i].event = "mcp-oauth-code"})

\* The values a query gives under a key, in order ('=' present).
RECURSIVE ValuesOf(_, _)
ValuesOf(params, key) ==
    IF params = <<>> THEN <<>>
    ELSE LET rest == ValuesOf(Tail(params), key)
         IN  IF Head(params).key = key /\ Head(params).value # NoEq
               THEN <<Head(params).value>> \o rest
               ELSE rest

\* A request to the callback path /oauth/callback whose query carries one
\* code and one state, both non-empty once percent-decoded.
CarriesCodeAndState(url) ==
    /\ url.path = CallbackPath
    /\ Len(url.parts) = 1
    /\ Len(ValuesOf(url.parts[1], "code")) = 1
    /\ Len(ValuesOf(url.parts[1], "state")) = 1
    /\ Decode(ValuesOf(url.parts[1], "code")[1]) \notin {None, ""}
    /\ Decode(ValuesOf(url.parts[1], "state")[1]) \notin {None, ""}

CodeOf(url) == Decode(ValuesOf(url.parts[1], "code")[1])
StateOf(url) == Decode(ValuesOf(url.parts[1], "state")[1])

TerminalStatus == {"Completed", "Rejected", "TimedOut", "ShutDown", "Failed"}

\* C11: a code event is emitted only for a request to the callback path
\* /oauth/callback that arrived before the deadline and whose decoded state
\* equals the session's expected_state; a callback whose state differs is
\* answered 400, the rejection event is emitted, the session ends Rejected,
\* and no code is emitted.
C11_CodeOnlyForValidCallback ==
    [][\A s \in Sessions :
         LET ss == session[s]
             p == extract_callback_params(ss.req.url)
         IN  /\ EmitsCode(s) =>
                   /\ ss.wpc = "got"
                   /\ ss.req.url.path = CallbackPath
                   /\ ss.req.intime
                   /\ p.some /\ p.state = ss.expected
             /\ ( /\ Handles(s)
                  /\ ~is_expired(ss.deadline)
                  /\ ss.req.url.path = CallbackPath
                  /\ p.some /\ p.state # ss.expected ) =>
                   /\ session'[s].responses = Append(ss.responses, 400)
                   /\ session'[s].emitted = Append(ss.emitted, RejectedEvent)
                   /\ session'[s].status = "Rejected"
    ]_vars

\* C12: while the session is Listening and its deadline has not passed, a
\* callback request that carries a non-empty code and a state equal to
\* expected_state is answered 200, the code event carries exactly that code
\* and state, and the session ends Completed.
C12_ValidCallbackCompletes ==
    [][\A s \in Sessions :
         LET ss == session[s]
         IN  ( /\ Handles(s)
               /\ ss.status = "Listening"
               /\ ~is_expired(ss.deadline)
               /\ CarriesCodeAndState(ss.req.url)
               /\ StateOf(ss.req.url) = ss.expected ) =>
                /\ session'[s].responses = Append(ss.responses, 200)
                /\ session'[s].emitted =
                      Append(ss.emitted, CodeEvent(CodeOf(ss.req.url), ss.expected))
                /\ session'[s].status = "Completed"
    ]_vars

\* A session that completed on the percent-encoded callback: the event holds
\* the decoded code and state.
C12_Witness ==
    \E s \in Sessions :
        /\ session[s].status = "Completed"
        /\ session[s].emitted = <<CodeEvent("XYZ", "abc123")>>
        /\ Last(session[s].responses) = 200

\* C13: Completed, Rejected, TimedOut and ShutDown are absorbing: once a
\* session is in one of them its worker has left the loop, its state never
\* changes, it answers no further request and emits nothing more; a session
\* delivers at most one code.
C13_TerminalAbsorbing ==
    [][\A s \in Sessions :
         /\ session[s].status \in TerminalStatus =>
               /\ session[s].wpc = "exited"
               /\ session'[s].status = session[s].status
               /\ session'[s].wpc = "exited"
               /\ ~Responds(s)
               /\ ~Emits(s)
         /\ CodeEvents(session'[s].emitted) <= 1
    ]_vars

\* A finished session whose listener holds a request that came after the end.
C13_Witness ==
    \E s \in Sessions :
        /\ session[s].status \in {"Completed", "Rejected", "TimedOut", "ShutDown"}
        /\ session[s].queue # <<>>
        /\ Last(session[s].queue).kind = "request"

\* shutdown() was called for session s and has returned.
ShutdownReturned(s) ==
    session[s].shutdown /\ ~(canceller.pc = "flagged" /\ canceller.s = s)

\* C14: once shutdown() has been called for a session, the session emits no
\* event and sends no response afterwards.
C14_SilentAfterShutdown ==
    [][\A s \in Sessions : ShutdownReturned(s) => ~Emits(s) /\ ~Responds(s)]_vars

\* C15: a shutdown() interrupts the worker's blocking wait: once the flag is
\* set the worker leaves its loop, without a request having to arrive, a poll
\* having to time out or the deadline having to pass.
C15_ShutdownTerminates ==
    \A s \in Sessions : session[s].shutdown ~> session[s].wpc = "exited"

\* The worker is blocked in recv_timeout, shutdown() has run, and the unblock
\* marker is what the wait returns with.
C15_Witness ==
    \E s \in Sessions :
        /\ session[s].wpc = "recv"
        /\ session[s].shutdown
        /\ session[s].queue = <<Unblock>>

\* No request came to session s and shutdown() was not called for it.
LeftAlone(s) == arrivals = 0 /\ ~session[s].shutdown

NoCommandHolds(s) == starter.s # s /\ canceller.s # s

\* C17: when a session's loop has reached a terminal state its port is
\* released: no owner keeps the listener alive, for a session started without
\* an id and for a session whose handle was placed in the registry.
C17_PortReleased ==
    \A s \in Sessions :
        (session[s].wpc = "exited" /\ NoCommandHolds(s)) => PortReleased(s)

\* C18: the registry holds an entry only while its capture is in flight: once
\* the capture has finished and no command is running, no entry holds the
\* handle of the finished session.
C18_RegistryOnlyInFlight ==
    \A id \in ServerIds :
        (registry[id] # NoSession /\ starter.pc = "idle" /\ canceller.pc = "idle")
            => session[registry[id]].wpc # "exited"

\* delete_mcp_server has deleted the row and deals with session s, the one
\* registered under the row's id.
DeletingWith(s) ==
    /\ canceller.kind = "delete"
    /\ rows[canceller.id] = "deleted"
    /\ registry[canceller.id] = s \/ canceller.s = s

\* C19: after delete_mcp_server has removed the server's row, the listener
\* registered under the server's id delivers no code.
C19_DeleteSilences ==
    [][\A s \in Sessions : DeletingWith(s) => ~EmitsCode(s)]_vars

----------------------------------------------------------------------------
\* Properties of the salt file.

\* Caller c takes a step of its call.
SaltSteps(c) == saltCall'[c] # saltCall[c]

\* C20: get_or_create_salt never writes to a salt file that exists when it is
\* called; a file of 32 bytes is never changed and its bytes are what the
\* call returns; with a file of another length the call fails and leaves the
\* file as it is; a salt is generated only when the call found no file.
C20_ExistingSaltKept ==
    [][\A c \in SaltCallers :
         /\ (saltFile.exists /\ saltFile.len = SaltLen) => saltFile' = saltFile
         /\ (SaltSteps(c) /\ saltCall[c].pc = "idle" /\ saltFile.exists) =>
               saltFile' = saltFile /\ saltCall'[c].pc \in {"exists", "panicked"}
         /\ (SaltSteps(c) /\ saltCall[c].pc = "exists") =>
               /\ saltFile' = saltFile
               /\ IF saltFile.len = SaltLen
                    THEN saltCall'[c].pc \in {"returned", "idle"}
                    ELSE saltCall'[c].pc \in {"panicked", "idle"}
               /\ saltCall'[c].pc = "returned" => saltCall'[c].ret = saltFile.bytes
         /\ saltCall'[c].pc = "created" => ~saltCall'[c].seen.exists
    ]_vars

\* A call that found a salt of 32 bytes and returned it, the file unchanged.
C20_Witness ==
    \E c \in SaltCallers :
        /\ saltCall[c].pc = "returned"
        /\ saltCall[c].seen.exists /\ saltCall[c].seen.len = SaltLen
        /\ saltCall[c].ret = saltCall[c].seen.bytes
        /\ saltFile = saltCall[c].seen

----------------------------------------------------------------------------
\* More properties of the OAuth callback listener.

\* C22: a request that arrived after the deadline is answered 408, the
\* timeout event is emitted and the session ends TimedOut, whatever the
\* request holds; no code is emitted once the deadline has passed.
C22_LateRequestTimesOut ==
    [][\A s \in Sessions :
         LET ss == session[s]
         IN  /\ (Handles(s) /\ ~ss.req.intime) =>
                   /\ session'[s].responses = Append(ss.responses, 408)
                   /\ session'[s].emitted = Append(ss.emitted, TimedOutEvent)
                   /\ session'[s].status = "TimedOut"
             /\ EmitsCode(s) => ~is_expired(ss.deadline)
    ]_vars

\* A valid callback that came after the deadline and was answered 408.
C22_Witness ==
    \E s \in Sessions :
        /\ session[s].status = "TimedOut"
        /\ session[s].responses = <<408>>
        /\ session[s].emitted = <<TimedOutEvent>>

\* C23: a request handled before the deadline whose path is not the callback
\* path /oauth/callback is answered 404, emits nothing and leaves the session
\* Listening: it leads neither to a code nor to a terminal state.
C23_OtherPathIgnored ==
    [][\A s \in Sessions :
         LET ss == session[s]
         IN  ( /\ Handles(s)
               /\ ~is_expired(ss.deadline)
               /\ ss.req.url.path # CallbackPath ) =>
                /\ session'[s].responses = Append(ss.responses, 404)
                /\ ~Emits(s)
                /\ session'[s].status = "Listening"
                /\ session'[s].wpc = "check"
    ]_vars

\* The query of url gives key no value, or one value that decodes to the
\* empty string.
MissingOrEmpty(url, key) ==
    \/ Len(url.parts) = 0
    \/ /\ Len(url.parts) = 1
       /\ \/ ValuesOf(url.parts[1], key) = <<>>
          \/ /\ Len(ValuesOf(url.parts[1], key)) = 1
             /\ Decode(ValuesOf(url.parts[1], key)[1]) = ""

\* C24: a request to the callback path handled before the deadline in which
\* code or state is missing or empty after percent-decoding is answered 400,
\* emits nothing and leaves the session Listening, its worker back at the
\* top of the loop.
C24_MalformedTolerated ==
    [][\A s \in Sessions :
         LET ss == session[s]
         IN  ( /\ Handles(s)
               /\ ~is_expired(ss.deadline)
               /\ ss.req.url.path = CallbackPath
               /\ MissingOrEmpty(ss.req.url, "code")
                    \/ MissingOrEmpty(ss.req.url, "state") ) =>
                /\ session'[s].responses = Append(ss.responses, 400)
                /\ ~Emits(s)
                /\ session'[s].status = "Listening"
                /\ session'[s].wpc = "check"
    ]_vars

\* A malformed callback was answered 400 and a later well-formed one 200.
C24_Witness ==
    \E s \in Sessions :
        /\ session[s].status = "Completed"
        /\ session[s].responses = <<400, 200>>
        /\ session[s].emitted = <<CodeEvent("XYZ", "abc123")>>

\* The holder of the handle of session s takes a step of shutdown() that is
\* not the session's first live one: the flag is already set, or the worker
\* has already left its loop.
ShutdownRepeats(s) ==
    /\ canceller.s = s
    /\ canceller.pc \in {"holding", "flagged"}
    /\ canceller' # canceller
    /\ session[s].wpc = "exited" \/ canceller.calls >= 2
         \/ (canceller.calls = 1 /\ canceller.pc = "holding")

\* What the application and the browser see of a session, and where its
\* worker stands.
Observable(ss) ==
    [status |-> ss.status, emitted |-> ss.emitted, responses |-> ss.responses,
     wpc |-> ss.wpc, req |-> ss.req]

\* C25: shutdown() is idempotent: a call on a handle whose flag is set, or
\* on a session that is terminal, changes nothing that can be observed and
\* leaves the flag set; the worker takes at most one unblock marker, after
\* which it never waits again; shutdown_oauth_session for an id with no
\* entry changes nothing.
C25_ShutdownIdempotent ==
    [][\A s \in Sessions :
         /\ ShutdownRepeats(s) =>
               /\ Observable(session'[s]) = Observable(session[s])
               /\ canceller.calls >= 1 => session'[s].shutdown
         /\ ( /\ session[s].wpc = "recv" /\ session'[s].wpc # "recv"
              /\ session[s].queue # <<>>
              /\ Head(session[s].queue).kind = "unblock" ) =>
               /\ session[s].shutdown /\ session'[s].shutdown
               /\ session'[s].wpc \in {"check", "exited"}
         /\ (session[s].wpc = "check" /\ session[s].shutdown) =>
               session'[s].wpc \in {"check", "exited"}
         /\ (canceller.pc = "idle" /\ canceller'.kind = "shutdown") =>
               registry[canceller'.id] # NoSession
    ]_vars

\* shutdown() is being called for the second time on the handle of a session
\* whose worker is still in its loop.
C25_Witness ==
    \E s \in Sessions :
        /\ canceller.s = s /\ canceller.calls = 2 /\ canceller.pc = "flagged"
        /\ session[s].wpc # "exited"

\* C29: a session emits at most one event in its lifetime, and a session
\* whose worker has left the loop has emitted exactly one unless it ended by
\* shutdown, in which case it has emitted none.
C29_OneNotification ==
    \A s \in Sessions :
        /\ Len(session[s].emitted) <= 1
        /\ session[s].wpc = "exited" =>
              IF session[s].status = "ShutDown"
                THEN session[s].emitted = <<>>
                ELSE Len(session[s].emitted) = 1

\* A session that answered a probe and then ended with its one event.
C29_Witness ==
    \E s \in Sessions :
        /\ session[s].wpc = "exited"
        /\ Len(session[s].responses) = 2
        /\ Len(session[s].emitted) = 1

\* The worker of session s runs in this step a poll that returns, or deals
\* with a request, past the deadline.
PastDeadlineStep(s) ==
    /\ session[s].wpc \in {"recv", "got"}
    /\ session'[s].wpc # session[s].wpc
    /\ session[s].wpc = "recv" => session'[s].wpc # "got"
    /\ is_expired(session[s].deadline)

\* C30: every session terminates: its worker leaves the loop, and it does so
\* no later than the first poll that returns nothing, or the first request
\* it deals with, after the deadline.
C30_Terminates ==
    /\ \A s \in Sessions : session[s].wpc = "spawned" ~> session[s].wpc = "exited"
    /\ [][\A s \in Sessions : PastDeadlineStep(s) => session'[s].wpc = "exited"]_vars

\* A session that answered probes with 404 and 400 and then timed out.
C30_Witness ==
    \E s \in Sessions :
        /\ session[s].status = "TimedOut"
        /\ session[s].responses = <<404, 400>>

----------------------------------------------------------------------------
\* More properties of the salt file.

\* Caller d created the file and caller c, running at the same time, lost
\* the exclusive create against it: c found the file d had just created.
LostCreateTo(c, d) ==
    /\ c # d
    /\ saltCall[d].pc \in {"created", "returned"} /\ ~saltCall[d].seen.exists
    /\ saltCall[c].pc # "idle"
    /\ saltCall[c].seen = [exists |-> TRUE, len |-> 0, bytes |-> None]

\* C26: of two callers that run get_or_create_salt at the same time on an
\* absent path one creates the file; the one that loses the exclusive create
\* does not fail on the file it reads and returns the salt the winner
\* returns.
C26_ConcurrentCreate ==
    \A c, d \in SaltCallers :
        LostCreateTo(c, d) =>
            /\ ~(saltCall[c].pc = "panicked" /\ saltCall[c].ret = "corrupted salt file")
            /\ (saltCall[c].pc = "returned" /\ saltCall[d].pc = "returned") =>
                   saltCall[c].ret = saltCall[d].ret

----------------------------------------------------------------------------
\* Properties of the texts shown, read and logged.

\* The text shown holds a fragment of the error's message.
ShowsMessageText(f) ==
    \E k \in DOMAIN f.shown, m \in DOMAIN f.err.msg : f.shown[k] = f.err.msg[m]

\* C21: every failure of the secret store is shown to the UI as the same
\* fixed text, whatever the operation and the inner cause, and that text
\* holds nothing of the cause's message.
C21_SecretStoreTextFixed ==
    \A i, j \in DOMAIN failures :
        failures[i].err.variant = "SecretStore" =>
            /\ ~ShowsMessageText(failures[i])
            /\ failures[j].err.variant = "SecretStore" =>
                  failures[j].shown = failures[i].shown

\* Two failures of the same operation that differ in the inner cause only.
C21_Witness ==
    /\ Len(failures) = 2
    /\ failures[1].err.variant = "SecretStore"
    /\ failures[2].err.variant = "SecretStore"
    /\ Len(failures[1].err.msg) = 2 /\ Len(failures[2].err.msg) = 2
    /\ failures[1].err.msg[1] = failures[2].err.msg[1]
    /\ failures[1].err.msg[2] # failures[2].err.msg[2]

\* The read found bytes under the key that are not valid UTF-8.
FoundInvalidText(r) ==
    /\ r.reader # "none"
    /\ ~r.failed
    /\ r.got.some
    /\ ~from_utf8(r.got.bytes).ok

\* C27: a read that expects text and finds bytes that are not valid UTF-8
\* reports a data-corruption error, never an absent secret; this holds for
\* get_api_key and for the startup read that warms the caches.
C27_InvalidTextIsCorruption ==
    FoundInvalidText(textRead) =>
        /\ textRead.result.kind = "Err"
        /\ textRead.result.err = CorruptedApiKeyData

\* The positions of body from i on that lie in a run of MIN_KEY_LEN or more
\* key characters; start is where the run that holds i - 1 began, 0 when
\* there is none.
RECURSIVE LongRunsFrom(_, _, _)
LongRunsFrom(body, i, start) ==
    IF i > Len(body)
      THEN IF start # 0 /\ Len(body) + 1 - start >= MIN_KEY_LEN
             THEN start..Len(body)
             ELSE {}
      ELSE CASE is_key_char(body[i]) /\ start = 0 -> LongRunsFrom(body, i + 1, i)
             [] is_key_char(body[i]) /\ start # 0 -> LongRunsFrom(body, i + 1, start)
             [] ~is_key_char(body[i]) /\ start # 0 ->
                    (IF i - start >= MIN_KEY_LEN THEN start..(i - 1) ELSE {})
                      \cup LongRunsFrom(body, i + 1, 0)
             [] ~is_key_char(body[i]) /\ start = 0 -> LongRunsFrom(body, i + 1, 0)

LongRunPositions(body) == LongRunsFrom(body, 1, 0)

\* The positions among the first max_len at which a long run begins.
LongRunStarts(body, max_len) ==
    { i \in LongRunPositions(body) :
        i <= max_len /\ (i = 1 \/ (i - 1) \notin LongRunPositions(body)) }

IsKept(c) == c # Redacted

\* C28: the output of sanitize_error_body holds no character of a run of 40
\* or more key characters of the body; each such run that begins within the
\* first max_len characters is replaced by one [REDACTED]; the other
\* characters of the first max_len are kept in order (a control character
\* as the '?' that stands for it).
C28_LongRunsRedacted ==
    sanitized.called =>
        LET body == sanitized.body
            out == sanitized.out
            long == LongRunPositions(body)
            n == IF Len(body) < sanitized.max_len THEN Len(body) ELSE sanitized.max_len
            kept == SelectSeq(out, IsKept)
            short(i) == i \notin long
            expected == SelectSeq([i \in 1..n |-> i], short)
        IN  /\ \A k \in DOMAIN out : out[k].at \notin long
            /\ Len(out) - Len(kept) = Cardinality(LongRunStarts(body, sanitized.max_len))
            /\ [k \in DOMAIN kept |-> kept[k].at] = expected
            /\ \A k \in DOMAIN kept :
                   kept[k] = IF is_control(body[kept[k].at])
                               THEN QuestionMark(kept[k].at)
                               ELSE body[kept[k].at]

----------------------------------------------------------------------------
\* Properties of the registry, the vault's snapshot and the key commands.

\* The listener of session s was started under a server id, is still
\* Listening with its worker in the loop, was not told to stop, and no
\* command that holds its handle is under way.
PendingUnder(s, id) ==
    /\ session[s].status = "Listening"
    /\ session[s].wpc \notin {"none", "exited"}
    /\ session[s].id = id
    /\ ~session[s].shutdown
    /\ starter.s # s
    /\ canceller.s # s

\* C31: every listener started with a session id that is still Listening is
\* held by the registry under that id, so that shutdown_oauth_session(id)
\* and delete_mcp_server(id) reach it; a second capture under the id does
\* not leave the first one running outside the registry.
C31_ListenerReachable ==
    \A s \in Sessions, id \in ServerIds :
        PendingUnder(s, id) => registry[id] = s

\* No vault operation is in progress.
VaultQuiet == app = "running" /\ \A t \in Threads : pc[t] \in {"idle", "done"}

\* No change of a key is waiting for a commit that failed.
NoFailedCommit(keys) == \A k \in keys : acked[k] # Unknown

\* The save of worker t fails in this step.
CommitFails(t) == CommitWriteWith(t, FALSE)

\* C32: when no vault operation is in progress and no commit has failed the
\* snapshot file holds exactly the entries of the store in memory; when the
\* commit of an insert or remove fails, the operation returns an error and
\* store and snapshot differ by that operation's change only.
C32_SnapshotMatchesStore ==
    /\ [](VaultQuiet /\ NoFailedCommit(Keys) => disk.entries = store)
    /\ [][\A t \in Threads :
            (CommitFails(t) /\ NoFailedCommit(Keys \ {op[t].key})) =>
                /\ result'[t].status \notin {"ok", "none"}
                /\ \A k \in Keys \ {op[t].key} :
                       StoreGet(store', k) = StoreGet(disk'.entries, k)
                /\ StoreGet(store', op[t].key) =
                       IF op[t].kind = "insert" THEN op[t].value ELSE None
         ]_vars

\* Every Fal key command so far has returned, and returned Ok.
AllFalCallsSucceeded ==
    \A h \in FalHandlers : falCall[h].pc \in {"idle", "done"} /\ falCall[h].clean

\* C33: once all store_fal_api_key and delete_fal_api_key calls have
\* completed successfully, whatever their interleaving, the cache agrees
\* with the vault: has_fal_api_key is true exactly when the vault holds
\* fal_api_key, and the cached key is the stored one.
C33_CacheAgreesWithVault ==
    AllFalCallsSucceeded =>
        /\ has_fal_api_key <=> falVault.some
        /\ falVault.some => as_bytes(falCache.text) = falVault.bytes

\* The older vault's has_api_key and get_api_key agree on provider p.
LegacyHasAgreesWithGet(p) ==
    legacy_has_api_key(p) <=> legacy_get_api_key(p).kind = "Some"

\* The desktop vault's has_api_key and get_api_key agree on provider p.
DesktopHasAgreesWithGet(p) ==
    has_api_key(p) <=> GetApiKeyText(deskKeys[p]).kind = "Some"

\* C34: after every sequence of store and delete commands, for every
\* provider, has_api_key(provider) returns true exactly when
\* get_api_key(provider) returns a value, in both vaults, and also after
\* the provider's key was deleted by its own delete command
\* (delete_exa_api_key).
C34_HasAgreesWithGet ==
    \A p \in KeyProviders : LegacyHasAgreesWithGet(p) /\ DesktopHasAgreesWithGet(p)

\* delete_mcp_server("srv") has returned r.
McpReturned(r) ==
    mcpCall.pc = "returned" /\ mcpCall.id = "srv" /\ mcpCall.result = r

\* A success leaves none of the server's secret entries and no registry
\* entry.
McpSuccessIsClean == McpReturned("Ok") => mcp.secrets = {} /\ ~mcp.handle

\* A call made after one that returned an error past the deletion of the
\* row, and that itself meets no database or vault error, returns with no
\* secret entry left.
McpLaterCallCleans ==
    (/\ mcpCall.pc = "returned"
     /\ mcpCall.id = "srv"
     /\ mcpCall.afterFailed
     /\ ~mcpCall.fault) => mcp.secrets = {}

\* C35: when delete_mcp_server(id) returns success none of the four secret
\* entries of the server and no registry entry for id remains; and when it
\* returned an error after the row was deleted, a later call can still
\* remove the secret entries that were left.
C35_DeleteRemovesSecrets == McpSuccessIsClean /\ McpLaterCallCleans

\* The number of characters of a state text.
RECURSIVE CharCount(_)
CharCount(st) == IF st = <<>> THEN 0 ELSE Head(st).n + CharCount(Tail(st))

\* ASCII letters, digits, '-', '_' and '.'
AllowedStateChars == {"a", "7", "-", "_", "."}

\* The state texts that are to be rejected: empty, longer than 256
\* characters, or with a character outside AllowedStateChars.
BadState(st) ==
    \/ st = <<>>
    \/ CharCount(st) > 256
    \/ \E i \in DOMAIN st : st[i].ch \notin AllowedStateChars

\* C36: start_oauth_callback_server rejects an expected_state that is empty,
\* longer than 256 characters or has a character outside ASCII letters,
\* digits, '-', '_' and '.', and on rejection starts no listener, binds no
\* port and adds no registry entry.  (A step taken with starter.pc = "idle"
\* is a call of the command, and startCall' holds its expected_state.)
C36_BadStateRejected ==
    [][(starter.pc = "idle" /\ startCall'.called /\ BadState(startCall'.state)) =>
          /\ startCall'.result.variant = "Validation"
          /\ UNCHANGED <<session, registry, starter>>]_vars

\* A state text of allowed characters that is too long was rejected with
\* nothing started.
C36_Witness ==
    /\ startCall.called
    /\ CharCount(startCall.state) > 256
    /\ \A i \in DOMAIN startCall.state : startCall.state[i].ch \in AllowedStateChars
    /\ startCall.result.variant = "Validation"
    /\ \A s \in Sessions : session[s].status = "Unused"
    /\ \A id \in ServerIds : registry[id] = NoSession

====
